---- MODULE Spec2Model ----
(***************************************************************************)
(* A model of xopto.mcbase.mcmaterial (Material, Materials), of the Gk     *)
(* scattering phase function of xopto.mcbase.mcpf.gk, of the phase         *)
(* function cache of xopto.util.suspension.base (Suspension) and of the    *)
(* fiber array detector of xopto.mcml.mcdetector.probe.lineararraypl       *)
(* (LinearArrayPl and its deposit kernel).                                 *)
(*                                                                         *)
(* Python objects live in heaps indexed by small integers, so that two     *)
(* names bound to one object (a Material held by the caller and by a       *)
(* stack, a list held by two stacks) are two references to one heap cell.  *)
(* A Python float is an extended rational [num, den] in lowest terms with  *)
(* den > 0; den = 0 encodes the IEEE specials: 1/0 is +inf, -1/0 is -inf   *)
(* and 0/0 is nan.  Arithmetic is exact, rounding is not modelled.         *)
(***************************************************************************)
EXTENDS Integers, Sequences, FiniteSets, TLC

VARIABLES
    mats,    \* heap of Material objects: id -> [n, mua, mus, pf]
    lists,   \* heap of Python lists (Materials._materials): id -> sequence
    stacks,  \* the caller's Materials objects: id -> [materials, pf_type]
    ret,     \* outcome of the last call: [op, exc, msg, val, reused]
             \* (and args, the arguments, for the calls that record them)
    suspensions,  \* the caller's Suspension objects: id -> fields
    caches,       \* heap of ObjCache objects: id -> set of [key, obj]
    calls,        \* the get calls made so far: [cache, key, obj, made],
                  \* with the Suspension (by) and the (wavelength,
                  \* temperature) of the pf call (args) that made them
    detectors,    \* the caller's LinearArrayPl objects: id -> fields
    mcsim         \* the simulator a deposit kernel runs in: [n, detector,
                  \* buffer], the kernel's compile-time n, the packed
                  \* detector and the accumulator buffer

vars == <<mats, lists, stacks, ret, suspensions, caches, calls,
         detectors, mcsim>>

---------------------------------------------------------------------------
(* Bounds of the model.                                                    *)

\* Longest list handed to Materials(...) and longest list a stack may reach.
MaxLen == 2

---------------------------------------------------------------------------
(* Python floats as extended rationals.                                    *)

Abs(i) == IF i < 0 THEN -i ELSE i

\* Body applied to the value of e (e is evaluated once).
Bind(e, Body(_)) == CHOOSE r \in {Body(v) : v \in {e}} : TRUE

RECURSIVE Gcd(_, _)
Gcd(a, b) == IF b = 0 THEN a ELSE Bind(a % b, LAMBDA r : Gcd(b, r))

\* num/den in lowest terms with a positive denominator (den # 0).
Reduce(num, den) ==
    Bind(<<num, den>>, LAMBDA p :
    Bind(Gcd(Abs(p[1]), Abs(p[2])), LAMBDA g :
        IF p[2] < 0
        THEN [num |-> (-p[1]) \div g, den |-> (-p[2]) \div g]
        ELSE [num |-> p[1] \div g, den |-> p[2] \div g]))

\* float(i) of a Python int
F(i) == [num |-> i, den |-> 1]

Inf == [num |-> 1, den |-> 0]
NegInf == [num |-> -1, den |-> 0]
NaN == [num |-> 0, den |-> 0]
Half == [num |-> 1, den |-> 2]

IsFinite(x) == x.den # 0
IsNaN(x) == x.den = 0 /\ x.num = 0
Sign(x) == IF x.num > 0 THEN 1 ELSE IF x.num < 0 THEN -1 ELSE 0

\* x == y, x < y, x > y of Python floats (every comparison with nan is False)
FEq(x, y) == ~IsNaN(x) /\ ~IsNaN(y) /\ x = y
FLt(x, y) ==
    /\ ~IsNaN(x) /\ ~IsNaN(y)
    /\ IF IsFinite(x) /\ IsFinite(y) THEN x.num * y.den < y.num * x.den
       ELSE IF IsFinite(x) THEN y = Inf
       ELSE IF IsFinite(y) THEN x = NegInf
       ELSE x = NegInf /\ y = Inf
FGt(x, y) == FLt(y, x)

\* x + y
FAdd(x, y) ==
    IF IsNaN(x) \/ IsNaN(y) THEN NaN
    ELSE IF IsFinite(x) /\ IsFinite(y)
         THEN Reduce(x.num * y.den + y.num * x.den, x.den * y.den)
    ELSE IF IsFinite(x) THEN y
    ELSE IF IsFinite(y) THEN x
    ELSE IF x = y THEN x ELSE NaN

\* x * y
FMul(x, y) ==
    IF IsNaN(x) \/ IsNaN(y) THEN NaN
    ELSE IF IsFinite(x) /\ IsFinite(y)
         THEN Reduce(x.num * y.num, x.den * y.den)
    ELSE IF Sign(x) * Sign(y) = 0 THEN NaN
    ELSE IF Sign(x) * Sign(y) > 0 THEN Inf ELSE NegInf

\* x / y for a finite non-zero y (Python raises ZeroDivisionError when y == 0:
\* the callers test for it)
FDiv(x, y) ==
    IF IsNaN(x) THEN NaN
    ELSE IF IsFinite(x) THEN Reduce(x.num * y.den, x.den * y.num)
    ELSE IF Sign(x) * Sign(y) > 0 THEN Inf ELSE NegInf

\* min(x, y) and max(x, y) of Python: the first argument unless the second
\* compares smaller (larger)
FMin(x, y) == IF FLt(y, x) THEN y ELSE x
FMax(x, y) == IF FGt(y, x) THEN y ELSE x

\* x ** k for an integer k, as Python computes it for a float x.  exc is
\* "ZeroDivisionError" for 0.0 raised to a negative power.
RECURSIVE IPow(_, _)
IPow(i, k) == IF k = 0 THEN 1 ELSE i * IPow(i, k - 1)

FPow(x, k) ==
    IF k >= 0
    THEN [exc |-> "", val |-> Reduce(IPow(x.num, k), IPow(x.den, k))]
    ELSE IF x.num = 0
         THEN [exc |-> "ZeroDivisionError", val |-> NaN]
         ELSE [exc |-> "", val |-> Reduce(IPow(x.den, -k), IPow(x.num, -k))]

---------------------------------------------------------------------------
(* xopto.mcml.mcdetector.probe.lineararraypl.LinearArrayPl: a detector is  *)
(* [n, fiber, spacing, orientation, position, direction, plaxis].  A numpy *)
(* vector is a sequence of floats.  The vectors of the model have rational *)
(* norms, so that the square root is exact.                                *)

DetIds == {"D", "E"}

FSub(x, y) == FAdd(x, FMul(F(-1), y))

\* x <= y of floats
FLe(x, y) == FLt(x, y) \/ FEq(x, y)

\* abs(x)
FAbs(x) == IF IsFinite(x) THEN [num |-> Abs(x.num), den |-> x.den]
           ELSE IF IsNaN(x) THEN NaN ELSE Inf

\* The largest r with r * r <= i, for i >= 0.
ISqrt(i) == CHOOSE r \in 0 .. i : r * r <= i /\ (r + 1) * (r + 1) > i

\* x ** 0.5 of a float x >= 0 that is the square of a rational
FSqrt(x) ==
    IF IsFinite(x) THEN [num |-> ISqrt(x.num), den |-> ISqrt(x.den)] ELSE x

\* sum(v * v) of a vector v
RECURSIVE SumSq(_)
SumSq(v) ==
    IF Len(v) = 0 THEN F(0)
    ELSE FAdd(FMul(v[1], v[1]), SumSq(Tail(v)))

\* np.linalg.norm(v)
norm(v) == FSqrt(SumSq(v))

\* v * c and v + w of vectors
Scale(v, c) == [i \in 1 .. Len(v) |-> FMul(v[i], c)]
VAdd(v, w) == [i \in 1 .. Len(v) |-> FAdd(v[i], w[i])]

\* The MultimodeFiber of the detectors (xopto.mcml.mcutil.fiber): the cores
\* of neighbouring fibers touch when the spacing is dcladding.
Fiber == [dcore |-> F(2), dcladding |-> F(2), ncore |-> F(5), na |-> F(3)]

\* axis.Axis(start, stop, n): the fields that the detector reads.
Axis(start, stop, n) ==
    [scaled_start |-> start, step |-> FDiv(FSub(stop, start), F(n)),
     n |-> n, logscale |-> FALSE]

\* max(int(n), 1)
max_n(n) == IF n > 1 THEN n ELSE 1

\* _set_orientation and _set_direction: the value is copied into the stored
\* array, then the norm of the stored array is tested, then the stored
\* array is scaled in place.  The result is the exception ("" if none) and
\* the stored array after the call.
set_normalized(value) ==
    LET stored == value
    IN  Bind(norm(stored), LAMBDA n :
            IF FEq(n, F(0))
            THEN [exc |-> "ValueError", stored |-> stored]
            ELSE [exc |-> "", stored |-> Scale(stored, FDiv(F(1), n))])

LinearArrayPl_set_orientation(det, orientation) ==
    Bind(set_normalized(orientation), LAMBDA r :
        [exc |-> r.exc,
         msg |-> IF r.exc = "" THEN ""
                 ELSE "Orientation vector norm/length must not be 0!",
         det |-> [det EXCEPT !.orientation = r.stored]])

LinearArrayPl_set_direction(det, direction) ==
    Bind(set_normalized(direction), LAMBDA r :
        [exc |-> r.exc,
         msg |-> IF r.exc = "" THEN ""
                 ELSE "Direction vector norm/length must not be 0!",
         det |-> [det EXCEPT !.direction = r.stored]])

\* _set_fiber, _set_spacing (float(value) of a float) and _set_position:
\* the value is stored as it is.
LinearArrayPl_set_fiber(det, value) ==
    [exc |-> "", msg |-> "", det |-> [det EXCEPT !.fiber = value]]

LinearArrayPl_set_spacing(det, value) ==
    [exc |-> "", msg |-> "", det |-> [det EXCEPT !.spacing = value]]

LinearArrayPl_set_position(det, value) ==
    [exc |-> "", msg |-> "", det |-> [det EXCEPT !.position = value]]

\* The setters that __init__ and update run one after the other on det: the
\* first exception ends the sequence and keeps what was stored until then.
\* A step is [field, value], field being a name of a detector field.
RECURSIVE assign_all(_, _)
assign_all(det, steps) ==
    IF Len(steps) = 0 THEN [exc |-> "", msg |-> "", det |-> det]
    ELSE LET s == steps[1]
         IN  Bind(IF s.field = "orientation"
                     THEN LinearArrayPl_set_orientation(det, s.value)
                  ELSE IF s.field = "direction"
                     THEN LinearArrayPl_set_direction(det, s.value)
                  ELSE IF s.field = "spacing"
                     THEN LinearArrayPl_set_spacing(det, s.value)
                  ELSE IF s.field = "position"
                     THEN LinearArrayPl_set_position(det, s.value)
                  ELSE LinearArrayPl_set_fiber(det, s.value),
             LAMBDA r :
                 IF r.exc # "" THEN r ELSE assign_all(r.det, Tail(steps)))

\* LinearArrayPl(fiber, n, spacing, plaxis, orientation, position,
\* direction) for a MultimodeFiber fiber; spacing is [type |-> "None"] or
\* [type |-> "float", value]; plaxis is an Axis.
LinearArrayPl_init(fiber, n, spacing, plaxis, orientation, position, direction) ==
    LET sp == IF spacing.type = "None" THEN fiber.dcladding
              ELSE spacing.value
        blank == [n |-> max_n(n), fiber |-> fiber, spacing |-> F(0),
                  orientation |-> <<F(1), F(0)>>,
                  position |-> <<F(0), F(0)>>,
                  direction |-> <<F(0), F(0), F(1)>>,
                  plaxis |-> plaxis]
    IN  assign_all(blank,
            <<[field |-> "spacing", value |-> sp],
              [field |-> "orientation", value |-> orientation],
              [field |-> "position", value |-> position],
              [field |-> "direction", value |-> direction]>>)

\* LinearArrayPl(la) for a LinearArrayPl la
LinearArrayPl_copy(la) ==
    LinearArrayPl_init(la.fiber, la.n,
        [type |-> "float", value |-> la.spacing], la.plaxis,
        la.orientation, la.position, la.direction)

\* update(other) for a LinearArrayPl other
LinearArrayPl_update(det, other) ==
    assign_all(det,
        <<[field |-> "fiber", value |-> other.fiber],
          [field |-> "spacing", value |-> other.spacing],
          [field |-> "orientation", value |-> other.orientation],
          [field |-> "position", value |-> other.position],
          [field |-> "direction", value |-> other.direction]>>)

\* other.get(key, default) of a dict other (a function on its keys)
dict_get(other, key, default) ==
    IF key \in DOMAIN other THEN other[key] ELSE default

\* update(other) for a dict other
LinearArrayPl_update_dict(det, other) ==
    assign_all(det,
        <<[field |-> "fiber", value |-> dict_get(other, "fiber", det.fiber)],
          [field |-> "spacing",
           value |-> dict_get(other, "spacing", det.spacing)],
          [field |-> "orientation",
           value |-> dict_get(other, "orientation", det.orientation)],
          [field |-> "position",
           value |-> dict_get(other, "position", det.position)],
          [field |-> "direction",
           value |-> dict_get(other, "direction", det.direction)]>>)

\* fiber_position(index): the center of the fiber index, for
\* -n <= index < n (IndexError otherwise)
fiber_position(det, index) ==
    IF index >= det.n \/ index < -det.n
    THEN [exc |-> "IndexError", val |-> << >>]
    ELSE LET left == VAdd(det.position,
                          Scale(det.orientation,
                                FMul(FMul(FMul(F(-1), det.spacing),
                                          F(det.n - 1)), Half)))
         IN  [exc |-> "",
              val |-> VAdd(left, Scale(det.orientation,
                                       FMul(det.spacing, F(index))))]

\* geometry.transform_base(adir, (0, 0, 1)) for adir = (0, 0, 1), the
\* direction of the detectors that the model packs: the identity.
transform_base == <<<<F(1), F(0), F(0)>>, <<F(0), F(1), F(0)>>,
                    <<F(0), F(0), F(1)>>>>

\* cl_pack: the structure that the deposit kernel reads, for a detector
\* with fibers perpendicular to the surface; offset is the offset of the
\* accumulators that the simulator allocated for the detector.
LinearArrayPl_cl_pack(det, offset) ==
    [offset |-> offset,
     transformation |-> transform_base,
     core_r_squared |->
         FMul([num |-> 1, den |-> 4], FMul(det.fiber.dcore, det.fiber.dcore)),
     cos_min |->
         FSqrt(FSub(F(1), FMul(FDiv(det.fiber.na, det.fiber.ncore),
                               FDiv(det.fiber.na, det.fiber.ncore)))),
     first_position |-> fiber_position(det, 0).val,
     delta_position |-> Scale(det.orientation, det.spacing),
     pl_min |-> det.plaxis.scaled_start,
     inv_dpl |-> IF det.plaxis.step # F(0)
                 THEN FDiv(F(1), det.plaxis.step) ELSE F(0),
     pl_log_scale |-> det.plaxis.logscale,
     n_pl |-> det.plaxis.n]

---------------------------------------------------------------------------
(* The deposit kernel that LinearArrayPl.cl_implementation generates for a *)
(* detector of n fibers.  The simulator is [n, detector, buffer, packets]: *)
(* the n compiled into the kernel, the packed detector, the accumulator    *)
(* buffer (cell -> integer weight) and the number of packets deposited.    *)

\* The largest number of packets that reach the detector.
MaxDeposits == 2

\* Limits of mc_int_t (32 bits).
IntMax == 2147483647
IntMin == -IntMax - 1

\* MC_INT_ACCUMULATOR_K: the integer weight of a packet of weight 1.
MC_INT_ACCUMULATOR_K == 8388607

\* The integer part of a finite float.
Trunc(x) ==
    IF x.num >= 0 THEN x.num \div x.den ELSE -((-x.num) \div x.den)

\* mc_int(x): the outcomes of the conversion.  The conversion of a value
\* that no mc_int_t holds is not defined: devices saturate, give the
\* smallest integer or give 0.
mc_int(x) == IF IsFinite(x) THEN {Trunc(x)} ELSE {IntMin, 0, IntMax}

\* No clipping.
mc_clip_none(x, low, high) == x

\* mc_clip(x, low, high) of integers
mc_clip(x, low, high) == IF x < low THEN low ELSE IF x > high THEN high ELSE x

\* weight_to_int(weight) for the weights 0 and 1
weight_to_int(weight) == Trunc(FMul(weight, F(MC_INT_ACCUMULATOR_K)))

Dot(a, b) ==
    FAdd(FAdd(FMul(a[1], b[1]), FMul(a[2], b[2])), FMul(a[3], b[3]))

\* transform_point3f(T, p) and its z component
transform_point3f(T, p) == <<Dot(T[1], p), Dot(T[2], p), Dot(T[3], p)>>
transform_point3f_z(T, p) == Dot(T[3], p)

\* The loop of the kernel from index on, the center of the fiber index
\* being fiber_xy: the first fiber whose core holds pos, n if there is none.
RECURSIVE hit_fiber(_, _, _, _, _)
hit_fiber(n, detector, pos, index, fiber_xy) ==
    IF index >= n THEN n
    ELSE LET mc_pos == <<FSub(pos[1], fiber_xy[1]),
                         FSub(pos[2], fiber_xy[2]), F(0)>>
         IN  Bind(transform_point3f(detector.transformation, mc_pos),
             LAMBDA detector_pos :
             LET dx == detector_pos[1]
                 dy == detector_pos[2]
                 r_squared == FAdd(FMul(dx, dx), FMul(dy, dy))
             IN  IF FLe(r_squared, detector.core_r_squared)
                 THEN index
                 ELSE hit_fiber(n, detector, pos, index + 1,
                                VAdd(fiber_xy, detector.delta_position)))

\* accumulator_deposit at address: the buffers that the write can leave.  A
\* write outside the buffer is not defined: it is lost or it lands in a cell
\* of the buffer.
accumulator_deposit(buffer, address, ui32w) ==
    IF address \in DOMAIN buffer
    THEN {[buffer EXCEPT ![address] = @ + ui32w]}
    ELSE {buffer} \cup {[buffer EXCEPT ![c] = @ + ui32w] : c \in DOMAIN buffer}

\* mcsim_detector_deposit(mcsim, pos, dir, weight) for a packet of optical
\* path length pl and a detector with a linear path length axis: the
\* outcomes [early, fiber_index, pl_index, index, ui32w, buffer]; early is
\* the return before the path length is read (pl_index, index and ui32w
\* are 0 then).
mcsim_detector_deposit(sim, pos, dir, weight, pl) ==
    LET detector == sim.detector
    IN  Bind(hit_fiber(sim.n, detector, pos, 0, detector.first_position),
        LAMBDA fiber_index :
        IF fiber_index >= sim.n
        THEN {[early |-> TRUE, fiber_index |-> fiber_index, pl_index |-> 0,
               index |-> 0, ui32w |-> 0, buffer |-> sim.buffer]}
        ELSE
        Bind(transform_point3f_z(detector.transformation, dir), LAMBDA pz :
        Bind(weight_to_int(weight)
                 * (IF FLe(detector.cos_min, FAbs(pz)) THEN 1 ELSE 0),
        LAMBDA ui32w :
          UNION {
            LET pl_index == mc_clip(i, 0, detector.n_pl - 1)
                index == pl_index * sim.n + fiber_index
            IN  {[early |-> FALSE, fiber_index |-> fiber_index,
                  pl_index |-> pl_index, index |-> index,
                  ui32w |-> ui32w, buffer |-> b] :
                   b \in IF ui32w > 0
                         THEN accumulator_deposit(sim.buffer,
                                  detector.offset + index, ui32w)
                         ELSE {sim.buffer}} :
            i \in mc_int(FMul(FSub(pl, detector.pl_min),
                              detector.inv_dpl))})))

\* The simulator that runs the kernel of det: the accumulators are those of
\* det.raw, np.zeros((plaxis.n, n)), at offset 0.
NewSim(det) ==
    [n |-> det.n, detector |-> LinearArrayPl_cl_pack(det, 0),
     buffer |-> [c \in 0 .. det.plaxis.n * det.n - 1 |-> 0],
     packets |-> 0]

\* LinearArrayPl(fiber) with the defaults of the constructor
DefaultDetector ==
    LinearArrayPl_init(Fiber, 1, [type |-> "None"], Axis(F(0), F(1), 1),
                       <<F(1), F(0)>>, <<F(0), F(0)>>,
                       <<F(0), F(0), F(1)>>).det

InitProbe ==
    /\ detectors = [d \in DetIds |-> DefaultDetector]
    /\ mcsim = NewSim(DefaultDetector)

---------------------------------------------------------------------------
(* xopto.mcbase.mcpf.gk.Gk: a Gk object is [type, g, a, pre], where pre is *)
(* the list _precalculated = [invA, a1, a2].                               *)

\* The last branch of Gk._recalculate (g != 0 and a != 0): [exc, pre].  It
\* is computed for 2a an integer, where the powers are rational; np.pi is
\* kept as a symbol: temp below is the rational factor of 1/pi, and a1
\* divides 2ag by 2*pi*temp, so that pi cancels.
Gk_recalculate_general(g, a) ==
    IF IsNaN(g) \/ IsNaN(a)
    THEN \* every power, product and quotient of the branch is nan (g # 0, so
         \* no base is 1.0 and no exponent is 0.0); invA = 1.0/a
         [exc |-> "",
          pre |-> <<IF IsNaN(a) THEN NaN ELSE FDiv(F(1), a), NaN, NaN>>]
    ELSE
      LET bad == [exc |-> "ZeroDivisionError", pre |-> << >>]
          k == FMul(F(2), a).num
      IN  Bind(FPow(FAdd(F(1), FMul(F(-1), FMul(g, g))), k), LAMBDA p1 :   \* (1 - g*g)**(2a)
          Bind(FPow(FAdd(F(1), g), k), LAMBDA pp :                         \* (1 + g)**(2a)
          Bind(FPow(FAdd(F(1), FMul(F(-1), g)), k), LAMBDA pm :            \* (1 - g)**(2a)
          Bind(FPow(FAdd(F(1), g), -k), LAMBDA a2 :                        \* (1 + g)**(-2a)
            IF p1.exc # "" \/ pp.exc # "" \/ pm.exc # "" THEN bad
            ELSE
              Bind(FAdd(pp.val, FMul(F(-1), pm.val)), LAMBDA den :
                IF FEq(den, F(0)) THEN bad
                ELSE
                  Bind(FDiv(FMul(FMul(a, g), p1.val), den), LAMBDA temp :
                    IF FEq(temp, F(0)) THEN bad
                    ELSE IF a2.exc # "" THEN bad
                    ELSE [exc |-> "",
                          pre |-> <<FDiv(F(1), a),
                                    FDiv(FMul(FMul(F(2), a), g),
                                         FMul(F(2), temp)),
                                    a2.val>>]))))))

\* A _recalculate that tests a == 0 before g == 0.
Gk_recalculate_a_first(g, a) ==
    IF FEq(a, F(0))
    THEN IF FEq(g, F(0))
         THEN [exc |-> "ZeroDivisionError", pre |-> << >>]
         ELSE [exc |-> "",
               pre |-> <<F(0),
                         FDiv(FAdd(F(1), FMul(g, g)), FMul(F(2), g)),
                         FDiv(FAdd(FAdd(F(1), FMul(F(2), g)), FMul(g, g)),
                              FMul(F(2), g))>>]
    ELSE IF FEq(g, F(0))
    THEN [exc |-> "", pre |-> <<F(0), F(0), F(0)>>]
    ELSE Gk_recalculate_general(g, a)

\* A _recalculate whose a == 0 branch takes a2 = (1 - 2g + g^2)/(2g).
Gk_recalculate_a2_minus(g, a) ==
    IF FEq(g, F(0))
    THEN [exc |-> "", pre |-> <<F(0), F(0), F(0)>>]
    ELSE IF FEq(a, F(0))
    THEN [exc |-> "",
          pre |-> <<F(0),
                    FDiv(FAdd(F(1), FMul(g, g)), FMul(F(2), g)),
                    FDiv(FAdd(FAdd(F(1), FMul(F(-2), g)), FMul(g, g)),
                         FMul(F(2), g))>>]
    ELSE Gk_recalculate_general(g, a)

\* Gk._recalculate for the stored (g, a): [exc, pre].
Gk_recalculate(g, a) ==
    IF FEq(g, F(0))
    THEN [exc |-> "", pre |-> <<F(0), F(0), F(0)>>]
    ELSE IF FEq(a, F(0))
    THEN [exc |-> "",
          pre |-> <<F(0),
                    FDiv(FAdd(F(1), FMul(g, g)), FMul(F(2), g)),
                    FDiv(FAdd(FAdd(F(1), FMul(F(2), g)), FMul(g, g)),
                         FMul(F(2), g))>>]
    ELSE Gk_recalculate_general(g, a)

\* Gk._set_g: clamp, store, recalculate.  The store happens before the
\* recalculation, so g is stored also when the recalculation raises.
Gk_set_g(pf, g) ==
    Bind(FMin(FMax(g, F(-1)), F(1)), LAMBDA g1 :
    Bind(Gk_recalculate(g1, pf.a), LAMBDA r :
        [exc |-> r.exc,
         obj |-> [pf EXCEPT !.g = g1,
                            !.pre = IF r.exc = "" THEN r.pre ELSE pf.pre]]))

\* Gk._set_a
Gk_set_a(pf, a) ==
    Bind(FMax(a, [num |-> -1, den |-> 2]), LAMBDA a1 :
    Bind(Gk_recalculate(pf.g, a1), LAMBDA r :
        [exc |-> r.exc,
         obj |-> [pf EXCEPT !.a = a1,
                            !.pre = IF r.exc = "" THEN r.pre ELSE pf.pre]]))

\* Gk.__init__(g, a): [exc, obj]; with an exception there is no object.
Gk_init(g, a) ==
    LET o0 == [type |-> "Gk", g |-> F(0), a |-> F(0), pre |-> << >>]
    IN  Bind(Gk_set_g(o0, g), LAMBDA s1 :
          IF s1.exc # "" THEN [exc |-> s1.exc, obj |-> o0]
          ELSE Bind(Gk_set_a(s1.obj, a), LAMBDA s2 :
            IF s2.exc # "" THEN [exc |-> s2.exc, obj |-> o0]
            ELSE Bind(Gk_recalculate(s2.obj.g, s2.obj.a), LAMBDA r3 :
              [exc |-> r3.exc,
               obj |-> IF r3.exc = "" THEN [s2.obj EXCEPT !.pre = r3.pre]
                       ELSE o0])))

\* Gk.cl_type: the fields of the ClGk structure, in order.
Gk_cl_type == <<"g", "a", "inv_a", "a1", "a2">>

\* Gk.cl_pack: the values written to the fields of the target structure.
Gk_cl_pack(pf) ==
    [g |-> pf.g, a |-> pf.a, inv_a |-> pf.pre[1], a1 |-> pf.pre[2],
     a2 |-> pf.pre[3]]

(* The second phase function family of xopto.mcbase.mcpf, Hg (Henyey-      *)
(* Greenstein): one parameter g, packed into the single field g.           *)
Hg_init(g) == [type |-> "Hg", g |-> g]
Hg_cl_type == <<"g">>
Hg_cl_pack(pf) == [g |-> pf.g]

---------------------------------------------------------------------------
(* Identities and input values.                                            *)

\* The caller creates two Material objects and binds two names to Materials
\* objects: A is built from a list, B from A.
MatIds == 1 .. 2
StackIds == {"A", "B"}

\* An element of a list is a reference to a Material (its id) or NotMaterial,
\* an object that is no Material and has no attribute pf (the int 0).
NotMaterial == 0
Elems == {NotMaterial} \cup MatIds
IsMaterial(e) == e \in MatIds
\* type(e).__name__
TypeName(e) == IF IsMaterial(e) THEN "Material" ELSE "int"

\* The phase function objects the caller passes to Material(...) and assigns
\* to Material.pf.
PfValues == {Gk_init(F(0), F(0)).obj, Gk_init(F(1), F(0)).obj, Hg_init(F(0))}

\* The numbers the caller passes as n, mua and mus.
NValues == {F(1), F(2)}
MuaValues == {F(-1), F(0), F(5)}
MusValues == {F(0), F(50)}

RECURSIVE SeqsUpTo(_, _)
\* all sequences over S of length at most k
SeqsUpTo(S, k) ==
    IF k = 0 THEN {<< >>}
    ELSE LET shorter == SeqsUpTo(S, k - 1)
         IN  shorter \cup {Append(q, e) : q \in {t \in shorter : Len(t) = k - 1},
                                          e \in S}

\* The lists the caller passes to Materials(...).
ListValues == SeqsUpTo(Elems, MaxLen)

\* A name of the caller that is bound to no Materials object.
NoStack == [materials |-> "", pf_type |-> "None"]
IsBound(s) == stacks[s].materials # ""
\* self._materials of the stack bound to s
MaterialsOf(s) == IF IsBound(s) THEN lists[stacks[s].materials] ELSE << >>

Ret(op, exc, msg) ==
    [op |-> op, exc |-> exc, msg |-> msg, val |-> << >>, reused |-> FALSE]

---------------------------------------------------------------------------
(* Material                                                                *)

\* Material.__init__
Material_init(n, mua, mus, pf) == [n |-> n, mua |-> mua, mus |-> mus, pf |-> pf]

\* A pf setter that accepts a phase function of any type.
Material_set_pf_any(m, pf) == [exc |-> "", obj |-> [m EXCEPT !.pf = pf]]

\* A mua setter that stores into a copy: the Material keeps its value.
Material_set_mua_copy(m, mua) == m

\* Material._set_pf on the Material m: [exc, obj]
Material_set_pf(m, pf) ==
    IF m.pf.type # pf.type
    THEN [exc |-> "ValueError", obj |-> m]
    ELSE [exc |-> "", obj |-> [m EXCEPT !.pf = pf]]

\* Material._set_n, _set_mua, _set_mus on the Material m
Material_set_n(m, n) == [m EXCEPT !.n = n]
Material_set_mua(m, mua) == [m EXCEPT !.mua = mua]
Material_set_mus(m, mus) == [m EXCEPT !.mus = mus]

\* m.n = n, m.mua = mua, m.mus = mus, m.pf = pf on the Material object o
set_n(o, n) ==
    /\ mats' = [mats EXCEPT ![o] = Material_set_n(@, n)]
    /\ ret' = Ret("set", "", << >>)
    /\ UNCHANGED <<lists, stacks, suspensions, caches, calls, detectors, mcsim>>

set_mua(o, mua) ==
    /\ mats' = [mats EXCEPT ![o] = Material_set_mua(@, mua)]
    /\ ret' = Ret("set", "", << >>)
    /\ UNCHANGED <<lists, stacks, suspensions, caches, calls, detectors, mcsim>>

set_mus(o, mus) ==
    /\ mats' = [mats EXCEPT ![o] = Material_set_mus(@, mus)]
    /\ ret' = Ret("set", "", << >>)
    /\ UNCHANGED <<lists, stacks, suspensions, caches, calls, detectors, mcsim>>

set_pf(o, pf) ==
    LET r == Material_set_pf(mats[o], pf)
    IN  /\ mats' = [mats EXCEPT ![o] = r.obj]
        /\ ret' = Ret("set_pf", r.exc, << >>)
        /\ UNCHANGED <<lists, stacks, suspensions, caches, calls, detectors, mcsim>>

---------------------------------------------------------------------------
(* Materials                                                               *)

\* type(e.pf).__name__ of the Material e
PfTypeOf(e) == mats[e].pf.type

SetMin(S) == CHOOSE x \in S : \A y \in S : x <= y

\* A check that tests only the class of the elements, not the type of their
\* phase functions.
check_instances_only(l, pf_type) ==
    IF pf_type = "None" /\ Len(l) = 0
    THEN [exc |-> "IndexError", msg |-> << >>, pf_type |-> pf_type]
    ELSE IF pf_type = "None" /\ ~IsMaterial(l[1])
    THEN [exc |-> "AttributeError", msg |-> <<"pf">>, pf_type |-> pf_type]
    ELSE
      LET pft == IF pf_type = "None" THEN PfTypeOf(l[1]) ELSE pf_type
          bad == {i \in 1 .. Len(l) : ~IsMaterial(l[i])}
      IN  IF bad = {} THEN [exc |-> "", msg |-> << >>, pf_type |-> pft]
          ELSE [exc |-> "TypeError",
                msg |-> <<"instances", TypeName(l[SetMin(bad)])>>,
                pf_type |-> pft]

\* A check that takes the family from the first member at every call.
check_first_member(l, pf_type) ==
    IF Len(l) = 0
    THEN [exc |-> "IndexError", msg |-> << >>, pf_type |-> pf_type]
    ELSE IF ~IsMaterial(l[1])
    THEN [exc |-> "AttributeError", msg |-> <<"pf">>, pf_type |-> pf_type]
    ELSE
      LET pft == PfTypeOf(l[1])
          bad == {i \in 1 .. Len(l) :
                      ~IsMaterial(l[i]) \/ PfTypeOf(l[i]) # pft}
      IN  IF bad = {} THEN [exc |-> "", msg |-> << >>, pf_type |-> pft]
          ELSE [exc |-> "TypeError", msg |-> << >>, pf_type |-> pft]

\* Materials.check on the list l with _pf_type = pf_type ("None" for None):
\* [exc, msg, pf_type], pf_type being _pf_type after the call.
\* The ValueError for an empty list is built but not raised (there is no
\* raise statement), so an empty list goes on to the read of l[0].
check(l, pf_type) ==
    IF pf_type = "None" /\ Len(l) = 0
    THEN [exc |-> "IndexError", msg |-> << >>, pf_type |-> pf_type]
    ELSE IF pf_type = "None" /\ ~IsMaterial(l[1])
    THEN [exc |-> "AttributeError", msg |-> <<"pf">>, pf_type |-> pf_type]
    ELSE
      LET pft == IF pf_type = "None" THEN PfTypeOf(l[1]) ELSE pf_type
          bad == {i \in 1 .. Len(l) :
                      ~IsMaterial(l[i]) \/ PfTypeOf(l[i]) # pft}
      IN  IF bad = {} THEN [exc |-> "", msg |-> << >>, pf_type |-> pft]
          ELSE LET i == SetMin(bad)
               IN  IF ~IsMaterial(l[i])
                   THEN [exc |-> "TypeError",
                         msg |-> <<"instances", TypeName(l[i])>>,
                         pf_type |-> pft]
                   ELSE [exc |-> "TypeError",
                         msg |-> <<"same-pf", pft, PfTypeOf(l[i])>>,
                         pf_type |-> pft]

\* s = Materials(materials) for a list: the list is copied and checked.  When
\* check raises, the constructor raises and s stays unbound.
Materials_init(s, materials) ==
    LET r == check(materials, "None")
    IN  /\ ~IsBound(s)
        /\ ret' = Ret("Materials", r.exc, r.msg)
        /\ IF r.exc = ""
           THEN /\ lists' = [lists EXCEPT ![s] = materials]
                /\ stacks' = [stacks EXCEPT
                                ![s] = [materials |-> s, pf_type |-> r.pf_type]]
           ELSE UNCHANGED <<lists, stacks>>
        /\ UNCHANGED <<mats, suspensions, caches, calls, detectors, mcsim>>

\* Materials.tolist of the stack bound to t: the list object itself
tolist(t) == stacks[t].materials

\* s = Materials(t) for a Materials object t: _materials is the list that
\* t.tolist() returns, _pf_type is read from its first element.
Materials_copy(s, t) ==
    LET l == lists[tolist(t)]
        exc == IF Len(l) = 0 THEN "IndexError"
               ELSE IF ~IsMaterial(l[1]) THEN "AttributeError" ELSE ""
    IN  /\ ~IsBound(s)
        /\ IsBound(t)
        /\ ret' = Ret("Materials", exc, IF exc = "AttributeError" THEN <<"pf">> ELSE << >>)
        /\ IF exc = ""
           THEN stacks' = [stacks EXCEPT
                             ![s] = [materials |-> tolist(t),
                                     pf_type |-> PfTypeOf(l[1])]]
           ELSE UNCHANGED stacks
        /\ UNCHANGED <<mats, lists, suspensions, caches, calls, detectors, mcsim>>

\* s.check()
Materials_check(s) ==
    LET r == check(MaterialsOf(s), stacks[s].pf_type)
    IN  /\ IsBound(s)
        /\ ret' = Ret("check", r.exc, r.msg)
        /\ stacks' = [stacks EXCEPT ![s].pf_type = r.pf_type]
        /\ UNCHANGED <<mats, lists, suspensions, caches, calls, detectors, mcsim>>

\* A __setitem__ that validates the assigned item against the recorded
\* family before it accepts the assignment.
setitem_validated(s, i, value) ==
    /\ IsBound(s)
    /\ IF i >= Len(MaterialsOf(s))
       THEN /\ UNCHANGED lists
            /\ ret' = Ret("setitem", "IndexError", << >>)
       ELSE IF ~IsMaterial(value) \/ PfTypeOf(value) # stacks[s].pf_type
       THEN /\ UNCHANGED lists
            /\ ret' = Ret("setitem", "TypeError", << >>)
       ELSE /\ lists' = [lists EXCEPT ![stacks[s].materials][i + 1] = value]
            /\ ret' = Ret("setitem", "", << >>)
    /\ UNCHANGED <<mats, stacks, suspensions, caches, calls, detectors, mcsim>>

\* Materials.__setitem__ with an index: s[i] = value (i counts from 0)
setitem(s, i, value) ==
    /\ IsBound(s)
    /\ IF i < Len(MaterialsOf(s))
       THEN /\ lists' = [lists EXCEPT ![stacks[s].materials][i + 1] = value]
            /\ ret' = Ret("setitem", "", << >>)
       ELSE /\ UNCHANGED lists
            /\ ret' = Ret("setitem", "IndexError", << >>)
    /\ UNCHANGED <<mats, stacks, suspensions, caches, calls, detectors, mcsim>>

\* Materials.__setitem__ with a slice: s[i:i+1] = values replaces the element
\* at i by the elements of values (and appends them when i >= len(s)).
setitem_slice(s, i, values) ==
    LET l == MaterialsOf(s)
        j == IF i < Len(l) THEN i ELSE Len(l)
        new == SubSeq(l, 1, j) \o values \o SubSeq(l, j + 2, Len(l))
    IN  /\ IsBound(s)
        /\ Len(new) <= MaxLen
        /\ lists' = [lists EXCEPT ![stacks[s].materials] = new]
        /\ ret' = Ret("setitem", "", << >>)
        /\ UNCHANGED <<mats, stacks, suspensions, caches, calls, detectors, mcsim>>

\* Materials.__getitem__ with an index: s[i]
Materials_getitem(s, i) ==
    LET l == MaterialsOf(s)
    IN  /\ IsBound(s)
        /\ ret' = [Ret("getitem", IF i < Len(l) THEN "" ELSE "IndexError",
                       << >>)
                   EXCEPT !.val = IF i < Len(l) THEN <<l[i + 1]>> ELSE << >>]
        /\ UNCHANGED <<mats, lists, stacks, suspensions, caches, calls, detectors, mcsim>>

\* s.material(index)
Materials_material(s, index) ==
    LET l == MaterialsOf(s)
    IN  /\ IsBound(s)
        /\ ret' = [Ret("material",
                       IF index < Len(l) THEN "" ELSE "IndexError", << >>)
                   EXCEPT !.val = IF index < Len(l) THEN <<l[index + 1]>>
                                  ELSE << >>]
        /\ UNCHANGED <<mats, lists, stacks, suspensions, caches, calls, detectors, mcsim>>

\* s.tolist(): the list object of the stack
Materials_tolist(s) ==
    /\ IsBound(s)
    /\ ret' = [Ret("tolist", "", << >>) EXCEPT !.val = <<tolist(s)>>]
    /\ UNCHANGED <<mats, lists, stacks, suspensions, caches, calls, detectors, mcsim>>

---------------------------------------------------------------------------
(* Materials.cl_pack                                                       *)

Range(f) == {f[i] : i \in DOMAIN f}

\* The fields of the structure that pf.fetch_cl_type gives for a family.
PfFields(type) == IF type = "Gk" THEN Range(Gk_cl_type) ELSE Range(Hg_cl_type)

\* material.pf.cl_pack: the field values the phase function writes
Pf_cl_pack(pf) == IF pf.type = "Gk" THEN Gk_cl_pack(pf) ELSE Hg_cl_pack(pf)

\* A new (zero-initialised) ClMaterial structure whose pf field has the
\* layout of the family type.
ZeroRecord(type) ==
    [n |-> F(0), mus |-> F(0), mua |-> F(0), inv_mut |-> F(0),
     mua_inv_mut |-> F(0), pf |-> [f \in PfFields(type) |-> F(0)]]

\* Materials.cl_type: Material.cl_type of the first material, times len:
\* [exc, family, len]
Materials_cl_type(l) ==
    IF Len(l) = 0 THEN [exc |-> "IndexError", family |-> "", len |-> 0]
    ELSE IF ~IsMaterial(l[1])
    THEN [exc |-> "AttributeError", family |-> "", len |-> 0]
    ELSE [exc |-> "", family |-> PfTypeOf(l[1]), len |-> Len(l)]

\* McObject.fetch_cl_type of a Materials object: the type cl_type gives for
\* the stack as it is now.
fetch_cl_type(l) == Materials_cl_type(l)

\* A test that allocates a new target only when none was passed.
NeedsNewTargetIfNone(target, num_materials) == ~target.given

\* The test that makes cl_pack allocate a new target.
NeedsNewTarget(target, num_materials) ==
    ~target.given \/ Len(target.recs) # num_materials

\* A reciprocal that is taken whenever mua + mus is not zero.
inv_mut_nonzero(m) ==
    Bind(FAdd(m.mua, m.mus), LAMBDA mut :
        IF ~FEq(mut, F(0)) THEN FDiv(F(1), mut) ELSE Inf)

\* The precalculated reciprocals of one material.
inv_mut_of(m) ==
    Bind(FAdd(m.mua, m.mus), LAMBDA mut :
        IF FGt(mut, F(0)) THEN FDiv(F(1), mut) ELSE Inf)

\* mua * inv_mut without the case of mus == 0.
mua_inv_mut_product(m) ==
    Bind(inv_mut_of(m), LAMBDA inv_mut : FMul(m.mua, inv_mut))

mua_inv_mut_of(m) ==
    IF FEq(m.mus, F(0)) THEN F(1)
    ELSE Bind(inv_mut_of(m), LAMBDA inv_mut : FMul(m.mua, inv_mut))

\* Assignment of the values vals to the fields of the structure struct: a
\* name that is no field of the structure leaves the structure unchanged.
WriteFields(struct, vals) ==
    [f \in DOMAIN struct |-> IF f \in DOMAIN vals THEN vals[f] ELSE struct[f]]

\* One turn of the loop of cl_pack: the record rec = target[index] after the
\* Material m was packed into it.
PackRecord(rec, m) ==
    Bind(m, LAMBDA material :
        [n |-> material.n, mua |-> material.mua, mus |-> material.mus,
         inv_mut |-> inv_mut_of(material),
         mua_inv_mut |-> mua_inv_mut_of(material),
         pf |-> WriteFields(rec.pf, Pf_cl_pack(material.pf))])

\* Materials.cl_pack(mc, target) on the list l: [exc, val, reused], where val
\* is the returned array and reused says that it is the target passed in.
Materials_cl_pack(l, target) ==
    LET num_materials == Len(l)
        fresh == NeedsNewTarget(target, num_materials)
        ty == fetch_cl_type(l)
        t0 == IF fresh
              THEN [i \in 1 .. ty.len |-> ZeroRecord(ty.family)]
              ELSE target.recs
        bad == {i \in 1 .. num_materials : ~IsMaterial(l[i])}
    IN  IF fresh /\ ty.exc # ""
        THEN [exc |-> ty.exc, val |-> << >>, reused |-> FALSE]
        ELSE IF bad # {} \/ Len(t0) < num_materials
        THEN [exc |-> IF bad # {} /\ SetMin(bad) <= Len(t0)
                      THEN "AttributeError" ELSE "IndexError",
              val |-> << >>, reused |-> FALSE]
        ELSE [exc |-> "",
              val |-> [i \in 1 .. Len(t0) |->
                          IF i <= num_materials
                          THEN PackRecord(t0[i], mats[l[i]]) ELSE t0[i]],
              reused |-> ~fresh]

\* A caller's array of k records that still holds the values of an earlier
\* use, with the pf layout of the family type.
StaleRecord(type) ==
    [n |-> F(9), mus |-> F(9), mua |-> F(9), inv_mut |-> F(9),
     mua_inv_mut |-> F(9), pf |-> [f \in PfFields(type) |-> F(9)]]

NoTarget == [given |-> FALSE, recs |-> << >>]

\* The targets the caller passes for the list l: None, or an array of the
\* stack's record type of any length up to MaxLen.
TargetValues(l) ==
    LET type == IF Len(l) > 0 /\ IsMaterial(l[1]) THEN PfTypeOf(l[1]) ELSE "Gk"
    IN  {NoTarget} \cup
        {[given |-> TRUE, recs |-> [i \in 1 .. k |-> StaleRecord(type)]] :
            k \in 0 .. MaxLen}

\* A Gk.cl_pack with the assignment of g reversed: self._g = target.g, for a
\* new (zero-initialised) target.
Gk_cl_pack_self_reversed(pf) == [pf EXCEPT !.g = F(0)]

\* Gk.cl_pack: the Gk object after the call.  The method assigns to the
\* fields of target only, no attribute of self.
Gk_cl_pack_self(pf) == pf

Hg_cl_pack_self(pf) == pf

Pf_cl_pack_self(pf) ==
    IF pf.type = "Gk" THEN Gk_cl_pack_self(pf) ELSE Hg_cl_pack_self(pf)

\* Materials.cl_pack(mc, target) on the list l: the Material objects after
\* the call.  The loop reaches the elements before the first that is not a
\* Material, and none if no target could be made.
Materials_cl_pack_self(l, target) ==
    LET bad == {i \in 1 .. Len(l) : ~IsMaterial(l[i])}
        last == IF NeedsNewTarget(target, Len(l)) /\ fetch_cl_type(l).exc # ""
                THEN 0
                ELSE IF bad = {} THEN Len(l) ELSE SetMin(bad) - 1
    IN  [o \in MatIds |->
            IF \E i \in 1 .. last : l[i] = o
            THEN [mats[o] EXCEPT !.pf = Pf_cl_pack_self(@)]
            ELSE mats[o]]

\* A cl_pack that writes through the array it was given before it tests
\* the length: the records the array has are filled in any case.
Materials_cl_pack_target_first(l, target) ==
    [i \in 1 .. Len(target.recs) |->
        IF i <= Len(l) /\ \A j \in 1 .. i : IsMaterial(l[j])
        THEN PackRecord(target.recs[i], mats[l[i]])
        ELSE target.recs[i]]

\* Materials.cl_pack(mc, target) on the list l: the records of the array
\* that the caller passed, after the call (none for None).  When a new
\* array is made the name target is bound to it and the array passed is
\* not written; otherwise the loop writes the records before the first
\* element that is not a Material.
Materials_cl_pack_target(l, target) ==
    LET bad == {i \in 1 .. Len(l) : ~IsMaterial(l[i])}
        last == IF bad = {} THEN Len(l) ELSE SetMin(bad) - 1
    IN  IF NeedsNewTarget(target, Len(l)) THEN target.recs
        ELSE [i \in 1 .. Len(target.recs) |->
                 IF i <= last THEN PackRecord(target.recs[i], mats[l[i]])
                 ELSE target.recs[i]]

\* s.cl_pack(mc, target); the outcome holds the array passed as it was
\* (args) and as it is after the call (target).
cl_pack(s, target) ==
    LET r == Materials_cl_pack(MaterialsOf(s), target)
    IN  /\ IsBound(s)
        /\ ret' = [op |-> "cl_pack", exc |-> r.exc, msg |-> << >>,
                   val |-> r.val, reused |-> r.reused,
                   args |-> <<target>>,
                   target |-> Materials_cl_pack_target(MaterialsOf(s),
                                                       target)]
        /\ mats' = Materials_cl_pack_self(MaterialsOf(s), target)
        /\ UNCHANGED <<lists, stacks, suspensions, caches, calls, detectors, mcsim>>

---------------------------------------------------------------------------
(* Suspension and its phase function cache.  A Suspension holds a size     *)
(* distribution, the refractive indices of the particles and of the medium *)
(* as callables of (wavelength, temperature), nd, and a reference to an    *)
(* ObjCache; a copy of a Suspension shares the cache of the original.      *)

\* Largest number of pf calls of a behaviour.
MaxCalls == 3

\* The names of the caller for Suspension objects.
SuspIds == {"S", "T"}
NoSuspension == [type |-> "None"]
\* A Suspension of the caller as an argument, and isinstance(pd, Suspension)
SuspensionValues == {[type |-> "Suspension", name |-> s] : s \in SuspIds}
IsSuspension(pd) == pd.type = "Suspension"

\* The size distribution of the caller: an object with a range.
PdValues == {[type |-> "Normal", range |-> <<F(1), F(2)>>]}

\* Refractive indices handed to Suspension(...): a float, or None for the
\* default.
RiValues == {[type |-> "float", value |-> F(3)], [type |-> "None"]}
WavelengthValues == {F(500), F(600)}
TemperatureValues == {F(293), F(300)}

\* ri.polystyrene.default and ri.water.default: callables of the wavelength
\* and of the temperature.
ri_default(w, t) == FAdd(F(1), FDiv(t, w))

\* The callable that __init__ stores for a refractive index: the default
\* for None, lambda w, t: value for a float.
as_callable(x) ==
    IF x.type = "None" THEN [type |-> "default"]
    ELSE [type |-> "lambda", value |-> x.value]
call_ri(f, w, t) == IF f.type = "lambda" THEN f.value ELSE ri_default(w, t)

\* The number of objects the factory has constructed so far, plus one: the
\* identity of the next object.
NewObjId == Cardinality({i \in 1 .. Len(calls) : calls[i].made}) + 1

\* An ObjCache.get that never looks the key up: it constructs an object on
\* every call and stores it under the key.
ObjCache_get_uncached(entries, factory, args, id) ==
    LET key == <<factory, args>>
        obj == [type |-> factory, id |-> id, args |-> args]
    IN  [obj |-> obj, made |-> TRUE,
         entries |-> {e \in entries : e.key # key}
                        \cup {[key |-> key, obj |-> obj]}]

\* ObjCache.get(factory, *args) on a cache with the given entries, id being
\* the identity of a new object: [obj, made, entries], made telling whether
\* the factory was called.
ObjCache_get(entries, factory, args, id) ==
    LET key == <<factory, args>>
        hit == {e \in entries : e.key = key}
        obj == [type |-> factory, id |-> id, args |-> args]
    IN  IF hit # {}
        THEN [obj |-> (CHOOSE e \in hit : TRUE).obj, made |-> FALSE,
              entries |-> entries]
        ELSE [obj |-> obj, made |-> TRUE,
              entries |-> entries \cup {[key |-> key, obj |-> obj]}]

\* The arguments that Suspension.pf hands to the cache after the factory.
Suspension_pf_args(su, wavelength, temperature) ==
    <<call_ri(su.particle_ri, wavelength, temperature),
      call_ri(su.medium_ri, wavelength, temperature),
      wavelength, su.pd, su.pd.range, su.nd>>

InitSuspensions ==
    /\ suspensions = [s \in SuspIds |-> NoSuspension]
    /\ caches = << >>
    /\ calls = << >>

\* A copy that makes caches of its own.
Suspension_copy_unshared(obj, new_cache) == [obj EXCEPT !.pf_cache = new_cache]

\* The fields of Suspension(obj) for a Suspension obj: those of obj, the
\* cache reference included (new_cache is the id a new ObjCache would get).
Suspension_copy(obj, new_cache) == obj

\* The heap of caches cs, with a new (empty) ObjCache when id is not in it.
WithCache(cs, id) == IF id > Len(cs) THEN Append(cs, {}) ELSE cs

\* s = Suspension(pd, particle_ri, medium_ri), pd being a size distribution
\* or a Suspension
Suspension_init(s, pd, particle_ri, medium_ri) ==
    /\ suspensions[s] = NoSuspension
    /\ IsSuspension(pd) => suspensions[pd.name] # NoSuspension
    /\ LET new == IF IsSuspension(pd)
                  THEN Suspension_copy(suspensions[pd.name], Len(caches) + 1)
                  ELSE [pd |-> pd, particle_ri |-> as_callable(particle_ri),
                        medium_ri |-> as_callable(medium_ri), nd |-> 100,
                        pf_cache |-> Len(caches) + 1]
       IN  /\ suspensions' = [suspensions EXCEPT ![s] = new]
           /\ caches' = WithCache(caches, new.pf_cache)
    /\ ret' = [op |-> "Suspension", exc |-> "", msg |-> << >>,
               val |-> << >>, reused |-> FALSE, args |-> <<s, pd>>]
    /\ UNCHANGED <<mats, lists, stacks, calls, detectors, mcsim>>

\* self.pf(wavelength, temperature) of the Suspension su bound to the name
\* by: the cache of su and the log of calls after the call, and the object
\* returned.
Suspension_pf_call(su, by, wavelength, temperature) ==
    LET args == Suspension_pf_args(su, wavelength, temperature)
        r == ObjCache_get(WithCache(caches, su.pf_cache)[su.pf_cache],
                          "MiePd", args, NewObjId)
    IN  [entries |-> r.entries,
         calls |-> Append(calls, [cache |-> su.pf_cache,
                                  key |-> <<"MiePd", args>>,
                                  obj |-> r.obj, made |-> r.made,
                                  by |-> by,
                                  args |-> <<wavelength, temperature>>]),
         obj |-> r.obj, made |-> r.made]

\* s.pf(wavelength, temperature)
Suspension_pf(s, wavelength, temperature) ==
    /\ suspensions[s] # NoSuspension
    /\ Len(calls) < MaxCalls
    /\ LET su == suspensions[s]
           r == Suspension_pf_call(su, s, wavelength, temperature)
       IN  /\ caches' = [caches EXCEPT ![su.pf_cache] = r.entries]
           /\ calls' = r.calls
           /\ ret' = [op |-> "Suspension.pf", exc |-> "", msg |-> << >>,
                      val |-> <<r.obj>>, reused |-> ~r.made,
                      args |-> <<s, wavelength, temperature>>]
    /\ UNCHANGED <<mats, lists, stacks, suspensions, detectors, mcsim>>

\* (volume, d) = s.make_mus(mus, volume, wavelength, temperature) and
\* s.make_musr(musr, ...): d = Suspension(s), then d.set_mus or d.set_musr,
\* which calls d.pf(wavelength, temperature).
make_diluted(op, s, d, wavelength, temperature) ==
    /\ suspensions[s] # NoSuspension
    /\ suspensions[d] = NoSuspension
    /\ Len(calls) < MaxCalls
    /\ LET su == Suspension_copy(suspensions[s], Len(caches) + 1)
           r == Suspension_pf_call(su, d, wavelength, temperature)
       IN  /\ suspensions' = [suspensions EXCEPT ![d] = su]
           /\ caches' = [WithCache(caches, su.pf_cache)
                            EXCEPT ![su.pf_cache] = r.entries]
           /\ calls' = r.calls
           /\ ret' = [op |-> op, exc |-> "", msg |-> << >>,
                      val |-> <<d>>, reused |-> FALSE,
                      args |-> <<s, wavelength, temperature>>]
    /\ UNCHANGED <<mats, lists, stacks, detectors, mcsim>>

make_mus(s, d, wavelength, temperature) ==
    make_diluted("make_mus", s, d, wavelength, temperature)

make_musr(s, d, wavelength, temperature) ==
    make_diluted("make_musr", s, d, wavelength, temperature)

InitCache ==
    /\ mats = [o \in MatIds |->
                 Material_init(F(1), F(0), F(1), Gk_init(F(0), F(0)).obj)]
    /\ lists = [s \in StackIds |-> << >>]
    /\ stacks = [s \in StackIds |-> NoStack]
    /\ ret = Ret("", "", << >>)
    /\ InitSuspensions
    /\ InitProbe

NextCache ==
    \/ \E s \in SuspIds, pd \in PdValues \cup SuspensionValues,
          particle_ri \in RiValues :
          Suspension_init(s, pd, particle_ri, [type |-> "float",
                                               value |-> F(2)])
    \/ \E s \in SuspIds, w \in WavelengthValues, t \in TemperatureValues :
          Suspension_pf(s, w, t)
    \/ \E s \in SuspIds, d \in SuspIds, w \in WavelengthValues,
          t \in TemperatureValues : make_mus(s, d, w, t)
    \/ \E s \in SuspIds, d \in SuspIds, w \in WavelengthValues,
          t \in TemperatureValues : make_musr(s, d, w, t)

SpecCache == InitCache /\ [][NextCache]_vars

---------------------------------------------------------------------------
(* The life cycle of Materials objects: the caller holds two Material      *)
(* objects, builds A from a list and B from A, assigns to the elements of  *)
(* both and to the pf of the Materials, and calls check.                   *)

Init ==
    /\ mats \in [MatIds -> {Material_init(F(1), F(0), F(1), pf) : pf \in PfValues}]
    /\ lists = [s \in StackIds |-> << >>]
    /\ stacks = [s \in StackIds |-> NoStack]
    /\ ret = Ret("", "", << >>)
    /\ InitSuspensions
    /\ InitProbe

Next ==
    \/ \E l \in ListValues : Materials_init("A", l)
    \/ Materials_copy("B", "A")
    \/ \E s \in StackIds : Materials_check(s)
    \/ \E s \in StackIds, i \in 0 .. MaxLen - 1, v \in Elems : setitem(s, i, v)
    \/ \E s \in StackIds, i \in 0 .. MaxLen - 1, vs \in SeqsUpTo(Elems, 2) :
          setitem_slice(s, i, vs)
    \/ \E o \in MatIds, pf \in PfValues : set_pf(o, pf)

Spec == Init /\ [][Next]_vars

---------------------------------------------------------------------------
(* Packing: the caller holds two Material objects, builds A from a list,   *)
(* assigns to the elements of A and to the pf of the Materials, assigns    *)
(* any coefficients to the first Material (the second keeps the values     *)
(* n = 2, mua = 5, mus = 50), and packs A into a target.                   *)

\* The Material whose n, mua and mus the caller assigns.
Varied == {m \in MatIds : \A o \in MatIds : m <= o}

InitPack ==
    /\ mats \in [MatIds -> {Material_init(n, mua, mus, pf) :
                              n \in NValues, mua \in MuaValues,
                              mus \in MusValues, pf \in PfValues}]
    /\ \A o \in MatIds \ Varied :
          mats[o].n = F(2) /\ mats[o].mua = F(5) /\ mats[o].mus = F(50)
    /\ lists = [s \in StackIds |-> << >>]
    /\ stacks = [s \in StackIds |-> NoStack]
    /\ ret = Ret("", "", << >>)
    /\ InitSuspensions
    /\ InitProbe

NextPack ==
    \/ \E l \in ListValues : Materials_init("A", l)
    \/ \E i \in 0 .. MaxLen - 1, v \in Elems : setitem("A", i, v)
    \/ \E i \in 0 .. MaxLen - 1, vs \in SeqsUpTo(Elems, 2) :
          setitem_slice("A", i, vs)
    \/ \E o \in Varied, n \in NValues : set_n(o, n)
    \/ \E o \in Varied, mua \in MuaValues : set_mua(o, mua)
    \/ \E o \in Varied, mus \in MusValues : set_mus(o, mus)
    \/ \E o \in MatIds, pf \in PfValues : set_pf(o, pf)
    \/ \E t \in TargetValues(MaterialsOf("A")) : cl_pack("A", t)

SpecPack == InitPack /\ [][NextPack]_vars

---------------------------------------------------------------------------
(* Packing of coefficients of either sign (SpecCoeff): the caller holds    *)
(* two Materials with one Gk family, assigns mua and mus of any sign to    *)
(* the first one, builds A from a list of them and packs A.                *)

\* The numbers the caller assigns as mua and mus: below zero, zero, above
\* zero, with sums mua + mus of either sign.
CoeffMuaValues == {F(-60), F(0), F(5)}
CoeffMusValues == {F(-50), F(0), F(50)}

InitCoeff ==
    /\ mats \in {[o \in MatIds |->
                     IF o \in Varied
                     THEN Material_init(F(1), mua, mus,
                                        Gk_init(F(0), F(0)).obj)
                     ELSE Material_init(F(2), F(5), F(50),
                                        Gk_init(F(1), F(0)).obj)] :
                  mua \in CoeffMuaValues, mus \in CoeffMusValues}
    /\ lists = [s \in StackIds |-> << >>]
    /\ stacks = [s \in StackIds |-> NoStack]
    /\ ret = Ret("", "", << >>)
    /\ InitSuspensions
    /\ InitProbe

NextCoeff ==
    \/ \E l \in SeqsUpTo(MatIds, MaxLen) : Materials_init("A", l)
    \/ \E o \in Varied, mua \in CoeffMuaValues : set_mua(o, mua)
    \/ \E o \in Varied, mus \in CoeffMusValues : set_mus(o, mus)
    \/ \E t \in TargetValues(MaterialsOf("A")) : cl_pack("A", t)

SpecCoeff == InitCoeff /\ [][NextCoeff]_vars

---------------------------------------------------------------------------
(* The life of a Gk object (SpecGk): the caller constructs Gk objects,     *)
(* assigns to g and a of the Gk held by a Material, and packs it.          *)

MinusHalf == [num |-> -1, den |-> 2]

\* Arguments of Gk(g, a), Gk.g = g and Gk.a = a: values inside and outside
\* of the domain, the bounds, the infinities and nan.
GValues == {NegInf, F(-2), F(-1), MinusHalf, F(0), Half, F(1), F(2), Inf, NaN}
AValues == {NegInf, F(-1), MinusHalf, F(0), Half, F(1), NaN}

\* Arguments of the constructor: for each parameter a value below the
\* domain, values inside, one above (g), and nan.
NewGValues == {F(-2), MinusHalf, F(0), F(2), NaN}
NewAValues == {F(-1), F(0), Half, NaN}

\* The outcome of a call on a Gk: that of Ret, with the arguments of the call.
GkRet(op, exc, args) ==
    [op |-> op, exc |-> exc, msg |-> << >>, val |-> << >>, reused |-> FALSE,
     args |-> args]

\* mats[o].pf = Gk(g, a): when the constructor raises there is no object and
\* nothing is assigned.
new_Gk(o, g, a) ==
    LET r == Gk_init(g, a)
    IN  /\ mats[o].pf.type = "Gk"
        /\ mats' = [mats EXCEPT
                      ![o] = IF r.exc = "" THEN Material_set_pf(@, r.obj).obj
                             ELSE @]
        /\ ret' = GkRet("Gk", r.exc, <<g, a>>)
        /\ UNCHANGED <<lists, stacks, suspensions, caches, calls, detectors, mcsim>>

\* mats[o].pf.g = g
set_g(o, g) ==
    LET r == Gk_set_g(mats[o].pf, g)
    IN  /\ mats[o].pf.type = "Gk"
        /\ mats' = [mats EXCEPT ![o].pf = r.obj]
        /\ ret' = GkRet("g", r.exc, <<g>>)
        /\ UNCHANGED <<lists, stacks, suspensions, caches, calls, detectors, mcsim>>

\* mats[o].pf.a = a
set_a(o, a) ==
    LET r == Gk_set_a(mats[o].pf, a)
    IN  /\ mats[o].pf.type = "Gk"
        /\ mats' = [mats EXCEPT ![o].pf = r.obj]
        /\ ret' = GkRet("a", r.exc, <<a>>)
        /\ UNCHANGED <<lists, stacks, suspensions, caches, calls, detectors, mcsim>>

\* mats[o].pf.cl_pack(mc): the values of the returned structure
pf_cl_pack(o) ==
    /\ mats[o].pf.type = "Gk"
    /\ ret' = [op |-> "pf.cl_pack", exc |-> "", msg |-> << >>,
               val |-> <<Gk_cl_pack(mats[o].pf)>>, reused |-> FALSE]
    /\ mats' = [mats EXCEPT ![o].pf = Gk_cl_pack_self(@)]
    /\ UNCHANGED <<lists, stacks, suspensions, caches, calls, detectors, mcsim>>

InitGk ==
    /\ mats = [o \in MatIds |->
                 Material_init(F(1), F(0), F(1), Gk_init(F(0), F(0)).obj)]
    /\ lists = [s \in StackIds |-> << >>]
    /\ stacks = [s \in StackIds |-> NoStack]
    /\ ret = Ret("", "", << >>)
    /\ InitSuspensions
    /\ InitProbe

NextGk ==
    \/ \E o \in Varied, g \in NewGValues, a \in NewAValues : new_Gk(o, g, a)
    \/ \E o \in Varied, g \in GValues : set_g(o, g)
    \/ \E o \in Varied, a \in AValues : set_a(o, a)
    \/ \E o \in Varied : pf_cl_pack(o)

SpecGk == InitGk /\ [][NextGk]_vars

---------------------------------------------------------------------------
(* The sampling routine of the Gk kernel, mcsim_pf_sample_angles.  The     *)
(* arithmetic is that of C floats: a division by zero gives an infinity or *)
(* nan and raises nothing.  An angle is held as its multiple of pi.        *)

\* The draws that the random-number source can give, and its states: the
\* draws to come and the number of draws consumed.
UValues == {F(0), Half}
RngValues == {[seq |-> q, pos |-> 0] : q \in [1 .. 3 -> UValues]}

\* A random-number source that gives the next draw without consuming it.
mcsim_random_peek(rng) == [val |-> rng.seq[rng.pos + 1], rng |-> rng]

\* mcsim_random(mcsim): [val, rng], the draw and the source after it
mcsim_random(rng) ==
    [val |-> rng.seq[rng.pos + 1], rng |-> [rng EXCEPT !.pos = @ + 1]]

\* mc_fdiv(x, y): x/y
mc_fdiv(x, y) ==
    IF IsNaN(x) \/ IsNaN(y) THEN NaN
    ELSE IF ~IsFinite(y) THEN IF IsFinite(x) THEN F(0) ELSE NaN
    ELSE IF y.num = 0
         THEN IF x.num = 0 THEN NaN ELSE IF x.num > 0 THEN Inf ELSE NegInf
    ELSE IF IsFinite(x) THEN Reduce(x.num * y.den, x.den * y.num)
    ELSE IF Sign(x) * Sign(y) > 0 THEN Inf ELSE NegInf

\* mc_pow(x, e) for an exponent e with an integer value: pow of C
mc_pow(x, e) ==
    LET k == e.num
    IN  IF k = 0 THEN F(1)
        ELSE IF IsNaN(x) THEN NaN
        ELSE IF ~IsFinite(x)
             THEN IF k < 0 THEN F(0)
                  ELSE IF x = NegInf /\ k % 2 = 1 THEN NegInf ELSE Inf
        ELSE IF x.num = 0 THEN IF k < 0 THEN Inf ELSE F(0)
        ELSE FPow(x, k).val

\* fmax and fmin of C: the other argument when one is nan
mc_fmax(x, y) ==
    IF IsNaN(x) THEN y ELSE IF IsNaN(y) THEN x ELSE IF FLt(x, y) THEN y ELSE x
mc_fmin(x, y) ==
    IF IsNaN(x) THEN y ELSE IF IsNaN(y) THEN x ELSE IF FLt(y, x) THEN y ELSE x

\* A clip that returns its argument.
mc_fclip_none(x, low, high) == x

\* mc_fclip(x, low, high)
mc_fclip(x, low, high) == mc_fmin(mc_fmax(x, low), high)

\* The three branches of the routine for the packed pf and the draw u: the
\* local cos_theta before the clip.
sample_cos_theta(pf, u) ==
    IF FEq(pf.g, F(0))
    THEN FAdd(F(1), FMul(F(-2), u))
    ELSE IF FEq(pf.a, F(0))
    THEN FAdd(pf.a1,
              FMul(mc_pow(mc_fdiv(FAdd(F(1), FMul(F(-1), pf.g)),
                                  FAdd(F(1), pf.g)),
                          FMul(F(2), u)),
                   pf.a2))
    ELSE Bind(FAdd(FMul(pf.a1, u), pf.a2), LAMBDA tmp1 :
         Bind(FAdd(FAdd(F(1), FMul(pf.g, pf.g)),
                   FMul(F(-1), mc_pow(tmp1, FMul(F(-1), pf.inv_a)))),
              LAMBDA tmp2 : mc_fdiv(tmp2, FMul(F(2), pf.g))))

\* mcsim_pf_sample_angles(mcsim, &azimuth) for the packed pf of the current
\* layer: [azimuth, cos_theta, val, rng], azimuth in units of pi, cos_theta
\* the local before the clip, val the value returned, rng the source after
\* the call.
mcsim_pf_sample_angles(pf, rng) ==
    Bind(mcsim_random(rng), LAMBDA r1 :
    Bind(mcsim_random(r1.rng), LAMBDA r2 :
    Bind(sample_cos_theta(pf, r2.val), LAMBDA cos_theta :
        [azimuth |-> FMul(F(2), r1.val),
         cos_theta |-> cos_theta,
         val |-> mc_fclip(cos_theta, F(-1), F(1)),
         rng |-> r2.rng])))

\* One scattering event on the pf of the Material o, packed as it is now.
sample_angles(o, rng) ==
    LET pf == Gk_cl_pack(mats[o].pf)
        r == mcsim_pf_sample_angles(pf, rng)
    IN  /\ ret' = [op |-> "sample", exc |-> "", msg |-> << >>,
                   val |-> <<r.val>>, reused |-> FALSE,
                   args |-> <<pf, rng>>, azimuth |-> r.azimuth,
                   cos_theta |-> r.cos_theta, rng |-> r.rng]
        /\ UNCHANGED <<mats, lists, stacks, suspensions, caches, calls, detectors, mcsim>>

\* The values of g and a that the caller assigns before sampling: the
\* reciprocal of each a other than 0 is an integer.
SampleGValues == {F(-1), MinusHalf, F(0), Half, F(1)}
SampleAValues == {MinusHalf, F(0), Half, F(1)}

NextSample ==
    \/ \E o \in Varied, g \in SampleGValues : set_g(o, g)
    \/ \E o \in Varied, a \in SampleAValues : set_a(o, a)
    \/ \E o \in Varied, rng \in RngValues : sample_angles(o, rng)

SpecSample == InitGk /\ [][NextSample]_vars

---------------------------------------------------------------------------
(* todict and fromdict.  A dict is a record; the objects that fromdict     *)
(* constructs are new objects, given by their values.                     *)

\* Gk.todict
Gk_todict(pf) == [g |-> pf.g, a |-> pf.a, type |-> "Gk"]

Hg_todict(pf) == [g |-> pf.g, type |-> "Hg"]

Pf_todict(pf) == IF pf.type = "Gk" THEN Gk_todict(pf) ELSE Hg_todict(pf)

\* A Material.todict without the mus entry taking the value of mus: it
\* exports mua under both keys.
Material_todict_mua_twice(m) ==
    [n |-> m.n, mua |-> m.mua, mus |-> m.mua, pf |-> Pf_todict(m.pf),
     type |-> "Material"]

\* Material.todict
Material_todict(m) ==
    [n |-> m.n, mua |-> m.mua, mus |-> m.mus, pf |-> Pf_todict(m.pf),
     type |-> "Material"]

\* The attributes of the module mcpf: the phase function classes, and the
\* attributes that every module has (here __name__, a str).
mcpf_classes == {"Gk", "Hg"}
mcpf_attributes == mcpf_classes \cup {"__name__"}

\* fromdict of a phase function class: the constructor on the entries of the
\* dict other than type.  [exc, obj]
Pf_fromdict(data) ==
    IF data.type = "Gk" THEN Gk_init(data.g, data.a)
    ELSE [exc |-> "", obj |-> Hg_init(data.g)]

NoObject == [type |-> "None"]

\* A Material.fromdict that raises TypeError for the discriminator as well.
Material_fromdict_TypeError(data) ==
    IF data.type # "Material" \/ data.pf.type \notin mcpf_attributes
    THEN [exc |-> "TypeError", obj |-> NoObject, made |-> 0]
    ELSE IF data.pf.type \notin mcpf_classes
    THEN [exc |-> "AttributeError", obj |-> NoObject, made |-> 0]
    ELSE Bind(Pf_fromdict(data.pf), LAMBDA p :
           IF p.exc # ""
           THEN [exc |-> p.exc, obj |-> NoObject, made |-> 0]
           ELSE [exc |-> "",
                 obj |-> Material_init(data.n, data.mua, data.mus, p.obj),
                 made |-> 2])

\* Material.fromdict(data): [exc, obj, made], made being the number of
\* objects (phase function, Material) constructed by the call.
Material_fromdict(data) ==
    IF data.type # "Material"
    THEN [exc |-> "ValueError", obj |-> NoObject, made |-> 0]
    ELSE IF data.pf.type \notin mcpf_attributes          \* not hasattr
    THEN [exc |-> "TypeError", obj |-> NoObject, made |-> 0]
    ELSE IF data.pf.type \notin mcpf_classes             \* no fromdict
    THEN [exc |-> "AttributeError", obj |-> NoObject, made |-> 0]
    ELSE Bind(Pf_fromdict(data.pf), LAMBDA p :
           IF p.exc # ""
           THEN [exc |-> p.exc, obj |-> NoObject, made |-> 0]
           ELSE [exc |-> "",
                 obj |-> Material_init(data.n, data.mua, data.mus, p.obj),
                 made |-> 2])

\* Materials.todict on the list l: [exc, val]
Materials_todict(l) ==
    IF \E i \in 1 .. Len(l) : ~IsMaterial(l[i])
    THEN [exc |-> "AttributeError", val |-> [type |-> "None"]]
    ELSE [exc |-> "",
          val |-> [type |-> "Materials",
                   materials |-> [i \in 1 .. Len(l) |->
                                     Material_todict(mats[l[i]])]]]

\* Materials.check on a list ms of new Material objects, _pf_type being
\* None: the exception, "" if none.
check_new(ms) ==
    IF Len(ms) = 0 THEN "IndexError"
    ELSE IF \E i \in 1 .. Len(ms) : ms[i].pf.type # ms[1].pf.type
    THEN "TypeError"
    ELSE ""

\* Materials.fromdict(data): [exc, val, made], val being the list of the
\* members of the new Materials.
Materials_fromdict(data) ==
    IF data.type # "Materials"
    THEN [exc |-> "TypeError", val |-> << >>, made |-> 0]
    ELSE Bind([i \in 1 .. Len(data.materials) |->
                  Material_fromdict(data.materials[i])], LAMBDA rs :
         LET bad == {i \in 1 .. Len(rs) : rs[i].exc # ""}
             ms == [i \in 1 .. Len(rs) |-> rs[i].obj]
         IN  IF bad # {}
             THEN [exc |-> rs[SetMin(bad)].exc, val |-> << >>,
                   made |-> 2 * (SetMin(bad) - 1)]
             ELSE IF check_new(ms) # ""
             THEN [exc |-> check_new(ms), val |-> << >>,
                   made |-> 2 * Len(rs)]
             ELSE [exc |-> "", val |-> ms, made |-> 2 * Len(rs) + 1])

---------------------------------------------------------------------------
(* Export and import (SpecDict): the caller builds a stack, assigns to its *)
(* elements and to g and a of the phase functions, and calls todict and    *)
(* fromdict, on exported dicts and on dicts of its own.                    *)

\* The outcome of a todict or fromdict call: that of Ret, with the argument
\* of the call and the number of objects the call constructed.
DictRet(op, exc, val, args, made) ==
    [op |-> op, exc |-> exc, msg |-> << >>, val |-> val, reused |-> FALSE,
     args |-> args, made |-> made]

\* Dicts of the caller: pf entries of the two families, of a name that mcpf
\* does not have and of a name that is no class of mcpf, under the type
\* discriminators of Material and of Materials.
PfDicts ==
    {[g |-> Half, a |-> Half, type |-> "Gk"], [g |-> F(0), type |-> "Hg"],
     [type |-> "Nope"], [type |-> "__name__"]}
MaterialDict(type, pf) ==
    [n |-> F(1), mua |-> F(0), mus |-> F(1), pf |-> pf, type |-> type]
MaterialDicts ==
    {MaterialDict(t, pf) : t \in {"Material", "Materials"}, pf \in PfDicts}
MaterialsDicts ==
    LET gk == MaterialDict("Material", [g |-> Half, a |-> Half, type |-> "Gk"])
        hg == MaterialDict("Material", [g |-> F(0), type |-> "Hg"])
        nope == MaterialDict("Material", [type |-> "Nope"])
        other == MaterialDict("Materials", [g |-> F(0), type |-> "Hg"])
    IN  {[type |-> t, materials |-> ms] :
            t \in {"Materials", "Material"},
            ms \in {<< >>, <<gk, hg>>, <<gk, nope>>, <<other>>, <<hg, hg>>}}

\* Material.fromdict(data)
fromdict(data) ==
    LET r == Material_fromdict(data)
    IN  /\ ret' = DictRet("Material.fromdict", r.exc, <<r.obj>>, <<data>>,
                          r.made)
        /\ UNCHANGED <<mats, lists, stacks, suspensions, caches, calls, detectors, mcsim>>

\* s.todict()
Materials_todict_call(s) ==
    LET r == Materials_todict(MaterialsOf(s))
    IN  /\ IsBound(s)
        /\ ret' = DictRet("Materials.todict", r.exc, <<r.val>>, << >>, 0)
        /\ UNCHANGED <<mats, lists, stacks, suspensions, caches, calls, detectors, mcsim>>

\* Materials.fromdict(data)
Materials_fromdict_call(data) ==
    LET r == Materials_fromdict(data)
    IN  /\ ret' = DictRet("Materials.fromdict", r.exc, r.val, <<data>>,
                          r.made)
        /\ UNCHANGED <<mats, lists, stacks, suspensions, caches, calls, detectors, mcsim>>

\* The dicts that todict gives for the objects of the state.
ExportedMaterials == {Material_todict(mats[o]) : o \in MatIds}
ExportedStacks ==
    {Materials_todict(MaterialsOf(s)).val :
        s \in {t \in StackIds :
                 IsBound(t) /\ Materials_todict(MaterialsOf(t)).exc = ""}}

\* The first Material holds a Gk, the second a Gk or an Hg.
InitDict ==
    /\ mats \in {[o \in MatIds |->
                     IF o \in Varied
                     THEN Material_init(F(1), F(0), F(1),
                                        Gk_init(F(0), F(0)).obj)
                     ELSE Material_init(F(2), F(5), F(50), pf)] :
                  pf \in {Gk_init(F(1), F(0)).obj, Hg_init(F(0))}}
    /\ lists = [s \in StackIds |-> << >>]
    /\ stacks = [s \in StackIds |-> NoStack]
    /\ ret = Ret("", "", << >>)
    /\ InitSuspensions
    /\ InitProbe

NextDict ==
    \/ \E l \in SeqsUpTo(MatIds, MaxLen) : Materials_init("A", l)
    \/ \E v \in Elems : setitem("A", 0, v)
    \/ \E o \in Varied, g \in {Half, F(1)} : set_g(o, g)
    \/ \E o \in Varied, a \in {F(0), Half} : set_a(o, a)
    \/ \E data \in ExportedMaterials \cup MaterialDicts : fromdict(data)
    \/ Materials_todict_call("A")
    \/ \E data \in ExportedStacks \cup MaterialsDicts :
          Materials_fromdict_call(data)

SpecDict == InitDict /\ [][NextDict]_vars

---------------------------------------------------------------------------
(* The operations of a stack (SpecStack): the caller builds A from a list, *)
(* assigns to its elements, and calls check, cl_pack, todict, material,    *)
(* tolist and reads elements, in any order.                                *)

NextStack ==
    \/ \E l \in SeqsUpTo(MatIds, MaxLen) : Materials_init("A", l)
    \/ \E i \in 0 .. MaxLen - 1, v \in Elems : setitem("A", i, v)
    \/ Materials_check("A")
    \/ \E t \in TargetValues(MaterialsOf("A")) : cl_pack("A", t)
    \/ Materials_todict_call("A")
    \/ \E i \in 0 .. MaxLen - 1 : Materials_getitem("A", i)
    \/ \E i \in 0 .. MaxLen - 1 : Materials_material("A", i)
    \/ Materials_tolist("A")

SpecStack == InitDict /\ [][NextStack]_vars

---------------------------------------------------------------------------
(* The LinearArrayPl detector: the deposit kernel (SpecDeposit) and the    *)
(* detector object in the hands of its caller (SpecProbe).                 *)

\* A packet of weight weight and path length pl leaves the sample at pos in
\* the direction dir.
deposit(pos, dir, weight, pl) ==
    /\ mcsim.packets < MaxDeposits
    /\ \E o \in mcsim_detector_deposit(mcsim, pos, dir, weight, pl) :
        /\ mcsim' = [mcsim EXCEPT !.buffer = o.buffer, !.packets = @ + 1]
        /\ ret' = [op |-> "deposit", exc |-> "", msg |-> "",
                   args |-> <<pos, dir, weight, pl>>,
                   early |-> o.early, fiber_index |-> o.fiber_index,
                   pl_index |-> o.pl_index, index |-> o.index,
                   ui32w |-> o.ui32w]
    /\ UNCHANGED <<mats, lists, stacks, suspensions, caches, calls,
                   detectors>>

\* The detectors of the deposit kernels: at most MaxFibers fibers in the x
\* direction with touching cores (spacing None).
MaxFibers == 2

AxisValues == {Axis(F(0), F(2), 2), Axis(F(3), F(4), 1), Axis(F(0), F(0), 1)}

PosValues ==
    {<<F(x), F(0), F(0)>> : x \in {-2, 0, 2, 3}} \cup {<<F(0), F(1), F(0)>>}

DirValues == {<<F(0), F(0), F(1)>>, <<F(1), F(0), F(0)>>}

WeightValues == {F(0), F(1)}

PlValues == {F(0), F(1), F(5), Inf}

InitDeposit ==
    /\ mats = [o \in MatIds |->
                 Material_init(F(1), F(0), F(1), Gk_init(F(0), F(0)).obj)]
    /\ lists = [s \in StackIds |-> << >>]
    /\ stacks = [s \in StackIds |-> NoStack]
    /\ ret = Ret("", "", << >>)
    /\ InitSuspensions
    /\ \E n \in 1 .. MaxFibers, plaxis \in AxisValues :
        LET det == LinearArrayPl_init(Fiber, n, [type |-> "None"], plaxis,
                       <<F(1), F(0)>>, <<F(0), F(0)>>,
                       <<F(0), F(0), F(1)>>).det
        IN  /\ detectors = [d \in DetIds |-> det]
            /\ mcsim = NewSim(det)

NextDeposit ==
    \E pos \in PosValues, dir \in DirValues, weight \in WeightValues,
       pl \in PlValues : deposit(pos, dir, weight, pl)

SpecDeposit == InitDeposit /\ [][NextDeposit]_vars

\* Vectors handed to the detector: orientation and direction.
OrientationValues == {<<F(1), F(0)>>, <<F(3), F(4)>>, <<F(0), F(0)>>}

DirectionValues ==
    {<<F(0), F(0), F(1)>>, <<F(0), F(3), F(4)>>, <<F(0), F(0), F(0)>>}

\* An operation on the detector d with the outcome r: a constructor binds
\* d when it returns, the other operations work on the detector in place.
outcome(op, d, args, r) ==
    /\ detectors' = IF op = "LinearArrayPl" /\ r.exc # "" THEN detectors
                    ELSE [detectors EXCEPT ![d] = r.det]
    /\ ret' = [op |-> op, exc |-> r.exc, msg |-> r.msg, args |-> args]
    /\ UNCHANGED <<mats, lists, stacks, suspensions, caches, calls, mcsim>>

\* d = LinearArrayPl(Fiber, n, None, Axis(0, 1, 1), orientation, (0, 0),
\* direction)
LinearArrayPl_new(d, n, orientation, direction) ==
    \E r \in {LinearArrayPl_init(Fiber, n, [type |-> "None"],
                  Axis(F(0), F(1), 1), orientation, <<F(0), F(0)>>,
                  direction)} :
        outcome("LinearArrayPl", d, <<d, n, orientation, direction>>, r)

\* d = LinearArrayPl(detectors[e])
LinearArrayPl_new_copy(d, e) ==
    \E r \in {LinearArrayPl_copy(detectors[e])} :
        outcome("LinearArrayPl", d, <<d, e>>, r)

\* detectors[d].orientation = orientation
set_orientation(d, orientation) ==
    \E r \in {LinearArrayPl_set_orientation(detectors[d], orientation)} :
        outcome("set_orientation", d, <<d, orientation>>, r)

\* detectors[d].direction = direction
set_direction(d, direction) ==
    \E r \in {LinearArrayPl_set_direction(detectors[d], direction)} :
        outcome("set_direction", d, <<d, direction>>, r)

\* detectors[d].update(detectors[e])
update(d, e) ==
    \E r \in {LinearArrayPl_update(detectors[d], detectors[e])} :
        outcome("update", d, <<d, e>>, r)

\* The values handed to the setters of position, spacing and fiber.
PositionValues == {<<F(1), F(2)>>}
SpacingValues == {F(3)}
FiberValues ==
    {[dcore |-> F(1), dcladding |-> F(4), ncore |-> F(5), na |-> F(4)]}

\* detectors[d].position = position
set_position(d, position) ==
    \E r \in {LinearArrayPl_set_position(detectors[d], position)} :
        outcome("set_position", d, <<d, position>>, r)

\* detectors[d].spacing = spacing
set_spacing(d, spacing) ==
    \E r \in {LinearArrayPl_set_spacing(detectors[d], spacing)} :
        outcome("set_spacing", d, <<d, spacing>>, r)

\* detectors[d].fiber = fiber
set_fiber(d, fiber) ==
    \E r \in {LinearArrayPl_set_fiber(detectors[d], fiber)} :
        outcome("set_fiber", d, <<d, fiber>>, r)

\* detectors[d].cl_pack(mc), for a detector whose fibers are perpendicular
\* to the surface (the direction that transform_base is modelled for).
detector_cl_pack(d) ==
    /\ <<detectors[d].direction[1], detectors[d].direction[2],
          FAbs(detectors[d].direction[3])>> = <<F(0), F(0), F(1)>>
    /\ ret' = [op |-> "detector_cl_pack", exc |-> "", msg |-> "",
               args |-> <<d>>,
               val |-> LinearArrayPl_cl_pack(detectors[d], 0)]
    /\ UNCHANGED <<mats, lists, stacks, suspensions, caches, calls,
                   detectors, mcsim>>

\* The dicts handed to update.
UpdateDicts ==
    {[k \in {"orientation"} |-> v] : v \in OrientationValues}
      \cup {[k \in {"direction"} |-> v] : v \in DirectionValues}
      \cup {[k \in {"position"} |-> v] : v \in PositionValues}
      \cup {[k \in {"spacing"} |-> v] : v \in SpacingValues}
      \cup {[k \in {"fiber"} |-> v] : v \in FiberValues}

\* detectors[d].update(other) for a dict other
update_dict(d, other) ==
    \E r \in {LinearArrayPl_update_dict(detectors[d], other)} :
        outcome("update_dict", d, <<d, other>>, r)

\* The caller constructs and updates the detector D; E is the detector
\* that D is copied and updated from.
NextProbe ==
    \/ \E n \in {0, 2}, orientation \in OrientationValues,
          direction \in DirectionValues :
            LinearArrayPl_new("D", n, orientation, direction)
    \/ \E e \in DetIds : LinearArrayPl_new_copy("D", e)
    \/ \E d \in DetIds, orientation \in OrientationValues :
            set_orientation(d, orientation)
    \/ \E d \in DetIds, direction \in DirectionValues :
            set_direction(d, direction)
    \/ \E e \in DetIds : update("D", e)
    \/ \E other \in UpdateDicts : update_dict("D", other)
    \/ \E position \in PositionValues : set_position("D", position)
    \/ \E spacing \in SpacingValues : set_spacing("D", spacing)
    \/ \E fiber \in FiberValues : set_fiber("D", fiber)
    \/ detector_cl_pack("D")

SpecProbe == InitGk /\ [][NextProbe]_vars

---------------------------------------------------------------------------
(* Properties of the life cycle (Spec).                                    *)

\* The Material elements of the list l
MaterialSlots(l) == {i \in 1 .. Len(l) : IsMaterial(l[i])}
AllMaterials(l) == MaterialSlots(l) = 1 .. Len(l)
\* All Material elements of l use one phase function type.
OnePfType(l) ==
    \A i, j \in MaterialSlots(l) : PfTypeOf(l[i]) = PfTypeOf(l[j])

\* C1: in every reachable state of a Materials stack, every member's pf has
\* the same concrete phase function type as every other member's pf.
C1_SamePfType == \A s \in StackIds : IsBound(s) => OnePfType(MaterialsOf(s))

\* C2: Materials(l) for a list l of Materials of which two have a pf of
\* different types raises TypeError, wherever the differing member stands,
\* and binds no Materials object.
C2_MixedListRaisesTypeError ==
    [][\A l \in ListValues :
          (Materials_init("A", l) /\ AllMaterials(l) /\ ~OnePfType(l))
             => (ret'.exc = "TypeError" /\ ~IsBound("A")')]_vars

C2_Witness ==
    /\ ret.op = "Materials" /\ ret.exc = "TypeError"
    /\ Len(ret.msg) = 3 /\ ret.msg[1] = "same-pf" /\ ret.msg[2] # ret.msg[3]
    /\ ~IsBound("A")

\* C3: Materials(l) for an empty l is rejected with the ValueError of check
\* ("At least one material is required") and binds no Materials object.
C3_EmptyListValueError ==
    [][Materials_init("A", << >>)
          => (ret'.exc = "ValueError" /\ ~IsBound("A")')]_vars

\* C4: check raises the TypeError that reports the element's type for the
\* first member that is no Material, at every index, index 0 included.
C4_NonMaterialTypeError ==
    [][\A l \in ListValues :
          (Materials_init("A", l) /\ ~AllMaterials(l) /\ OnePfType(l))
             => (ret'.exc = "TypeError" /\ ret'.msg = <<"instances", "int">>)]_vars

\* C5: after B = Materials(A), an index assignment to B leaves the elements
\* and the length of A unchanged, and an index assignment to A leaves B
\* unchanged.
C5_CopyIsIndependent ==
    [][\A i \in 0 .. MaxLen - 1, v \in Elems :
          /\ (setitem("B", i, v) /\ IsBound("A"))
                => MaterialsOf("A")' = MaterialsOf("A")
          /\ (setitem("A", i, v) /\ IsBound("B"))
                => MaterialsOf("B")' = MaterialsOf("B")]_vars

\* C7 as claimed: Material.pf = pf with a pf of another type fails with a
\* TypeError and leaves the pf unchanged.
C7_PfMismatchTypeError ==
    [][\A o \in MatIds, pf \in PfValues :
          (set_pf(o, pf) /\ pf.type # mats[o].pf.type)
             => (ret'.exc = "TypeError" /\ mats'[o].pf = mats[o].pf)]_vars

\* C7 as amended: Material.pf = pf with a pf of another type fails with a
\* ValueError and leaves the pf unchanged, and replaces the pf otherwise; the
\* type of the pf of a Material never changes.
C7_PfMismatchValueError ==
    [][/\ \A o \in MatIds, pf \in PfValues :
             set_pf(o, pf)
                => IF pf.type # mats[o].pf.type
                   THEN ret'.exc = "ValueError" /\ mats'[o].pf = mats[o].pf
                   ELSE ret'.exc = "" /\ mats'[o].pf = pf
       /\ \A o \in MatIds : mats'[o].pf.type = mats[o].pf.type]_vars

C7_Witness ==
    /\ ret.op = "set_pf" /\ ret.exc = "ValueError"
    /\ \E o, p \in MatIds : mats[o].pf.type # mats[p].pf.type

---------------------------------------------------------------------------
(* Properties of packing (SpecPack).                                       *)

\* The last call was a cl_pack of A that returned an array.
PackedOk == ret.op = "cl_pack" /\ ret.exc = ""

\* What A.cl_pack(mc) would return in this state.
Packed == Materials_cl_pack(MaterialsOf("A"), NoTarget)

\* mua + mus of the Material m
Mut(m) == FAdd(m.mua, m.mus)

\* C6 as claimed: a stack holds Material instances of its own, so a step that
\* changes attributes of the caller's Materials, and no stack, does not
\* change what cl_pack writes.
C6_StackHoldsCopies ==
    [][(IsBound("A") /\ UNCHANGED <<lists, stacks>>) => Packed' = Packed]_vars

\* C6 as amended: a stack holds references to the caller's Materials (only
\* the list is copied): after an assignment to n, mua, mus or pf of a
\* Material, cl_pack writes the assigned value in every slot that holds that
\* Material.
C6_StackSharesMaterials ==
    [][(ret'.op \in {"set", "set_pf"} /\ ret'.exc = "" /\ IsBound("A"))
          => Bind(Packed', LAMBDA packed :
                \A o \in MatIds :
                   LET slots == {i \in 1 .. Len(MaterialsOf("A")) :
                                    MaterialsOf("A")[i] = o /\ packed.exc = ""}
                   IN  /\ \A n \in NValues :
                             set_n(o, n)
                                => \A i \in slots : packed.val[i].n = n
                       /\ \A mua \in MuaValues :
                             set_mua(o, mua)
                                => \A i \in slots : packed.val[i].mua = mua
                       /\ \A mus \in MusValues :
                             set_mus(o, mus)
                                => \A i \in slots : packed.val[i].mus = mus
                       /\ \A pf \in PfValues :
                             set_pf(o, pf)
                                => \A i \in slots : packed.val[i].pf.g = pf.g)
      ]_vars

C6_Witness ==
    /\ ret.op = "set" /\ IsBound("A") /\ Packed.exc = ""
    /\ \E i \in 1 .. Len(MaterialsOf("A")) : MaterialsOf("A")[i] \in Varied
    /\ \E i \in 1 .. Len(MaterialsOf("A")) : Packed.val[i].mua # F(5)

\* C8 as claimed: the packed inv_mut is 1/(mua + mus) when mua + mus is not
\* zero, and +inf exactly when mua + mus is zero, for all stored values.
C8_InvMutNonZero ==
    PackedOk =>
       \A i \in 1 .. Len(MaterialsOf("A")) :
          LET m == mats[MaterialsOf("A")[i]]
          IN  /\ Mut(m) # F(0) => ret.val[i].inv_mut = FDiv(F(1), Mut(m))
              /\ ret.val[i].inv_mut = Inf <=> Mut(m) = F(0)

\* C8 as amended: the packed inv_mut is 1/(mua + mus) when mua + mus > 0 and
\* +inf when mua + mus <= 0, for all stored finite values.
C8_InvMutPositive ==
    PackedOk =>
       \A i \in 1 .. Len(MaterialsOf("A")) :
          LET m == mats[MaterialsOf("A")[i]]
          IN  /\ FGt(Mut(m), F(0)) => ret.val[i].inv_mut = FDiv(F(1), Mut(m))
              /\ ~FGt(Mut(m), F(0)) => ret.val[i].inv_mut = Inf

C8_Witness ==
    /\ PackedOk
    /\ \E i \in 1 .. Len(MaterialsOf("A")) :
          FLt(Mut(mats[MaterialsOf("A")[i]]), F(0)) /\ ret.val[i].inv_mut = Inf
    /\ \E i \in 1 .. Len(MaterialsOf("A")) :
          FGt(Mut(mats[MaterialsOf("A")[i]]), F(0))

\* C9 as claimed: the packed mua_inv_mut is 1 when mus == 0, for any mua,
\* and mua/(mua + mus) when mus != 0; mua == 0 with mus > 0 gives 0, and
\* (mua, mus) = (5, 50) gives 5/55 with inv_mut = 1/55.
C9_MuaInvMutRatio ==
    PackedOk =>
       \A i \in 1 .. Len(MaterialsOf("A")) :
          LET m == mats[MaterialsOf("A")[i]]
              r == ret.val[i]
          IN  /\ m.mus = F(0) => r.mua_inv_mut = F(1)
              /\ (m.mus # F(0) /\ Mut(m) # F(0))
                    => r.mua_inv_mut = FDiv(m.mua, Mut(m))
              /\ (FGt(m.mus, F(0)) /\ m.mua = F(0)) => r.mua_inv_mut = F(0)
              /\ (m.mua = F(5) /\ m.mus = F(50))
                    => /\ r.mua_inv_mut = [num |-> 1, den |-> 11]
                       /\ r.inv_mut = [num |-> 1, den |-> 55]

\* C9 as amended: the packed mua_inv_mut is 1 when mus == 0, for any mua;
\* when mus != 0 it is mua/(mua + mus) if mua + mus > 0 and mua * (+inf) if
\* mua + mus <= 0 (-inf for mua < 0, nan for mua == 0, +inf for mua > 0);
\* mua == 0 with mus > 0 gives 0, and (mua, mus) = (5, 50) gives 5/55 with
\* inv_mut = 1/55.
C9_MuaInvMut ==
    PackedOk =>
       \A i \in 1 .. Len(MaterialsOf("A")) :
          LET m == mats[MaterialsOf("A")[i]]
              r == ret.val[i]
          IN  /\ m.mus = F(0) => r.mua_inv_mut = F(1)
              /\ (m.mus # F(0) /\ FGt(Mut(m), F(0)))
                    => r.mua_inv_mut = FDiv(m.mua, Mut(m))
              /\ (m.mus # F(0) /\ ~FGt(Mut(m), F(0)))
                    => r.mua_inv_mut = (IF FLt(m.mua, F(0)) THEN NegInf
                                        ELSE IF m.mua = F(0) THEN NaN
                                        ELSE Inf)
              /\ (FGt(m.mus, F(0)) /\ m.mua = F(0)) => r.mua_inv_mut = F(0)
              /\ (m.mua = F(5) /\ m.mus = F(50))
                    => /\ r.mua_inv_mut = [num |-> 1, den |-> 11]
                       /\ r.inv_mut = [num |-> 1, den |-> 55]

\* A stack packed with mus != 0 and mua + mus < 0 next to (5, 50).
C9_Witness ==
    /\ PackedOk
    /\ \E i, j \in 1 .. Len(MaterialsOf("A")) :
          /\ mats[MaterialsOf("A")[i]].mua = F(-60)
          /\ mats[MaterialsOf("A")[i]].mus = F(50)
          /\ ret.val[i].mua_inv_mut = NegInf
          /\ mats[MaterialsOf("A")[j]].mua = F(5)
          /\ mats[MaterialsOf("A")[j]].mus = F(50)
          /\ ret.val[j].mua_inv_mut = [num |-> 1, den |-> 11]

\* mus == 0 with mua == 0 packed as 1.
C9_WitnessZeroMus ==
    /\ PackedOk
    /\ \E i, j \in 1 .. Len(MaterialsOf("A")) :
          /\ mats[MaterialsOf("A")[i]].mus = F(0)
          /\ mats[MaterialsOf("A")[i]].mua = F(0)
          /\ ret.val[i].mua_inv_mut = F(1)
          /\ mats[MaterialsOf("A")[j]].mua = F(5)
          /\ mats[MaterialsOf("A")[j]].mus = F(50)
          /\ ret.val[j].mua_inv_mut = [num |-> 1, den |-> 11]

\* mus != 0 with mua == 0 and mua + mus < 0 packed as nan, and with
\* mua > 0 as +inf.
C9_WitnessNaN ==
    /\ PackedOk
    /\ \E i \in 1 .. Len(MaterialsOf("A")) :
          /\ mats[MaterialsOf("A")[i]].mua = F(0)
          /\ mats[MaterialsOf("A")[i]].mus = F(-50)
          /\ ret.val[i].mua_inv_mut = NaN

C9_WitnessInf ==
    /\ PackedOk
    /\ \E i \in 1 .. Len(MaterialsOf("A")) :
          /\ mats[MaterialsOf("A")[i]].mua = F(5)
          /\ mats[MaterialsOf("A")[i]].mus = F(-50)
          /\ ret.val[i].mua_inv_mut = Inf

\* The values record r must hold for the Material m, apart from its pf.
HoldsCoefficients(r, m) ==
    /\ r.n = m.n /\ r.mus = m.mus /\ r.mua = m.mua
    /\ r.inv_mut = IF FGt(Mut(m), F(0)) THEN FDiv(F(1), Mut(m)) ELSE Inf
    /\ r.mua_inv_mut = IF m.mus = F(0) THEN F(1) ELSE FMul(m.mua, r.inv_mut)

\* C10: cl_pack returns an array of exactly len(stack) records, and record i
\* holds n, mus, mua, the reciprocals and the packed pf of the i-th material,
\* for every i, whatever target was passed and whatever length the stack has
\* now.
C10_PackedArray ==
    PackedOk =>
       LET l == MaterialsOf("A")
       IN  /\ Len(ret.val) = Len(l)
           /\ \A i \in 1 .. Len(l) :
                 /\ HoldsCoefficients(ret.val[i], mats[l[i]])
                 /\ ret.val[i].pf = Pf_cl_pack(mats[l[i]].pf)

\* The part of C10 that the code keeps: the length of the array and the
\* coefficients of every record, and the packed pf of every material whose
\* family is that of the record layout (the family of the first material).
PackedArrayOfLayoutFamily ==
    PackedOk =>
       LET l == MaterialsOf("A")
       IN  /\ Len(ret.val) = Len(l)
           /\ \A i \in 1 .. Len(l) :
                 /\ HoldsCoefficients(ret.val[i], mats[l[i]])
                 /\ mats[l[i]].pf.type = PfTypeOf(l[1])
                       => ret.val[i].pf = Pf_cl_pack(mats[l[i]].pf)

\* A pack into a reused target of two records of two different materials.
PackedReusedTarget ==
    /\ PackedOk /\ ret.reused
    /\ Len(ret.val) = 2
    /\ MaterialsOf("A")[1] # MaterialsOf("A")[2]
    /\ ret.val[1].pf.g # ret.val[2].pf.g

\* C11: cl_pack does not change the stack: the member list and its order,
\* the recorded phase function type, n, mua and mus of every member and the
\* parameters and derived constants of every member's pf are after the call
\* what they were before it, whether the call returns or raises.
C11_PackLeavesStack ==
    [][ret'.op = "cl_pack"
          => /\ MaterialsOf("A")' = MaterialsOf("A")
             /\ stacks'["A"].pf_type = stacks["A"].pf_type
             /\ \A i \in MaterialSlots(MaterialsOf("A")) :
                   mats'[MaterialsOf("A")[i]] = mats[MaterialsOf("A")[i]]]_vars

C11_Witness ==
    /\ PackedOk /\ Len(ret.val) = 2
    /\ \E i \in 1 .. 2 : /\ mats[MaterialsOf("A")[i]].pf.type = "Gk"
                         /\ mats[MaterialsOf("A")[i]].pf.g = F(1)
                         /\ ret.val[i].pf.g = F(1)

\* C12: packing a stack in which some member's pf has another type than the
\* record layout (that of the first member) fails with a type mismatch
\* error.
C12_MixedPackFails ==
    (/\ ret.op = "cl_pack"
     /\ AllMaterials(MaterialsOf("A"))
     /\ ~OnePfType(MaterialsOf("A")))
       => ret.exc = "TypeError"

---------------------------------------------------------------------------
(* Properties of Gk objects (SpecGk).                                      *)

\* v clamped into [lo, hi], for a number v
Clamped(v, lo, hi) == IF FLt(v, lo) THEN lo ELSE IF FGt(v, hi) THEN hi ELSE v

\* g lies in [-1, 1]; a is >= -0.5 (no comparison with nan holds)
InDomainG(g) == FLe(F(-1), g) /\ FLe(g, F(1))
InDomainA(a) == FLe(MinusHalf, a)

\* C13: after Gk(g, a) and after any assignments to Gk.g and Gk.a with any
\* floats, the stored g of every Gk lies in [-1, 1] and its stored a is
\* >= -0.5; the last value assigned is stored unchanged when it is inside
\* the domain and as the nearest bound when it is outside.
C13_StoredInDomain ==
    \A o \in Varied :
       LET pf == mats[o].pf
       IN  /\ InDomainG(pf.g) /\ InDomainA(pf.a)
           /\ ret.op = "g"
                 => pf.g = (IF InDomainG(ret.args[1]) THEN ret.args[1]
                            ELSE IF FLt(ret.args[1], F(-1)) THEN F(-1)
                            ELSE F(1))
           /\ ret.op = "a"
                 => pf.a = (IF InDomainA(ret.args[1]) THEN ret.args[1]
                            ELSE MinusHalf)
           /\ (ret.op = "Gk" /\ ret.exc = "")
                 => /\ pf.g = (IF InDomainG(ret.args[1]) THEN ret.args[1]
                               ELSE IF FLt(ret.args[1], F(-1)) THEN F(-1)
                               ELSE F(1))
                    /\ pf.a = (IF InDomainA(ret.args[2]) THEN ret.args[2]
                               ELSE MinusHalf)

\* What holds: a nan is stored as it is, every other float is clamped, and
\* the stored g and a are in the domain or nan.
ClampedUnlessNaN ==
    \A o \in Varied :
       LET pf == mats[o].pf
       IN  /\ InDomainG(pf.g) \/ IsNaN(pf.g)
           /\ InDomainA(pf.a) \/ IsNaN(pf.a)
           /\ ret.op = "g"
                 => pf.g = (IF IsNaN(ret.args[1]) THEN NaN
                            ELSE Clamped(ret.args[1], F(-1), F(1)))
           /\ ret.op = "a"
                 => pf.a = (IF IsNaN(ret.args[1]) THEN NaN
                            ELSE Clamped(ret.args[1], MinusHalf, Inf))
           /\ (ret.op = "Gk" /\ ret.exc = "")
                 => /\ pf.g = (IF IsNaN(ret.args[1]) THEN NaN
                               ELSE Clamped(ret.args[1], F(-1), F(1)))
                    /\ pf.a = (IF IsNaN(ret.args[2]) THEN NaN
                               ELSE Clamped(ret.args[2], MinusHalf, Inf))

\* A nan assigned to g is stored and nothing is raised.
NaNStored ==
    /\ ret.op = "g" /\ ret.exc = "" /\ IsNaN(ret.args[1])
    /\ \E o \in Varied : IsNaN(mats[o].pf.g)

\* C14: Gk(g, a), Gk.g = x and Gk.a = y never raise.
C14_NeverRaises == ret.op \in {"Gk", "g", "a"} => ret.exc = ""

\* C15: in every state the stored constants (invA, a1, a2) of a Gk are those
\* that _recalculate derives from the stored (g, a), and cl_pack emits g and
\* a with the constants derived from them.
C15_ConstantsFollow ==
    \A o \in Varied :
       LET pf == mats[o].pf
           r == Gk_recalculate(pf.g, pf.a)
       IN  /\ r.exc = "" /\ pf.pre = r.pre
           /\ ret.op = "pf.cl_pack"
                 => LET t == ret.val[1]
                        d == Gk_recalculate(t.g, t.a)
                    IN  d.exc = "" /\ <<t.inv_a, t.a1, t.a2>> = d.pre

\* C16: whenever the stored g is 0, for any stored a, the stored constants
\* (invA, a1, a2) are (0, 0, 0).
C16_ZeroG ==
    \A o \in Varied :
       FEq(mats[o].pf.g, F(0)) => mats[o].pf.pre = <<F(0), F(0), F(0)>>

C16_Witness ==
    /\ ret.op = "g" /\ ret.exc = ""
    /\ \E o \in Varied : /\ mats[o].pf.g = F(0) /\ mats[o].pf.a = Half
                         /\ mats[o].pf.pre = <<F(0), F(0), F(0)>>

---------------------------------------------------------------------------
(* Properties of export and import (SpecDict).                             *)

\* The Material obj has the n, mua and mus of the Material m, and a phase
\* function of the same type with the same parameters.
SameMaterial(obj, m) ==
    /\ obj # NoObject
    /\ obj.n = m.n /\ obj.mua = m.mua /\ obj.mus = m.mus
    /\ obj.pf.type = m.pf.type
    /\ Pf_todict(obj.pf) = Pf_todict(m.pf)

\* C17: Material.fromdict on the dict that todict gives for a Material of
\* the state returns a Material with the same n, mua and mus and a phase
\* function of the same type and parameters; Materials.fromdict on the dict
\* that todict gives for a stack returns a stack of such Materials, in the
\* same order.
C17_RoundTrip ==
    /\ ret.op = "Material.fromdict"
          => \A o \in MatIds :
                ret.args[1] = Material_todict(mats[o])
                   => ret.exc = "" /\ SameMaterial(ret.val[1], mats[o])
    /\ (/\ ret.op = "Materials.fromdict"
        /\ IsBound("A")
        /\ Materials_todict(MaterialsOf("A")).exc = ""
        /\ ret.args[1] = Materials_todict(MaterialsOf("A")).val)
          => LET l == MaterialsOf("A")
             IN  /\ ret.exc = ""
                 /\ Len(ret.val) = Len(l)
                 /\ \A i \in 1 .. Len(l) :
                       SameMaterial(ret.val[i], mats[l[i]])

\* The last call was cls.fromdict on a dict whose type entry is not cls.
WrongDiscriminator(cls) ==
    ret.op = cls \o ".fromdict" /\ ret.args[1].type # cls

\* C18 (as stated): Material.fromdict and Materials.fromdict raise TypeError
\* on a dict whose type entry is not the name of the class, and construct
\* nothing.
C18_DiscriminatorTypeError ==
    \A cls \in {"Material", "Materials"} :
       WrongDiscriminator(cls) => ret.exc = "TypeError" /\ ret.made = 0

\* C18 (amended): on a dict whose type entry is not the name of the class,
\* Material.fromdict raises ValueError and Materials.fromdict raises
\* TypeError; both construct nothing and return nothing.
C18_DiscriminatorRejected ==
    /\ WrongDiscriminator("Material")
          => ret.exc = "ValueError" /\ ret.made = 0 /\ ret.val = <<NoObject>>
    /\ WrongDiscriminator("Materials")
          => ret.exc = "TypeError" /\ ret.made = 0 /\ ret.val = << >>

C18_Witness ==
    /\ WrongDiscriminator("Material")
    /\ ret.args[1].pf = [g |-> Half, a |-> Half, type |-> "Gk"]
    /\ ret.exc = "ValueError" /\ ret.made = 0

\* C19: Material.fromdict on a dict of type Material whose pf entry names
\* no phase function class of mcpf raises TypeError, and constructs neither
\* a phase function nor a Material.
C19_UnknownFamilyTypeError ==
    (/\ ret.op = "Material.fromdict"
     /\ ret.args[1].type = "Material"
     /\ ret.args[1].pf.type \notin mcpf_classes)
       => ret.exc = "TypeError" /\ ret.made = 0

\* The same for the names that are no attribute of mcpf at all, and for
\* every other name that is no class: an exception, and nothing constructed.
UnknownAttributeTypeError ==
    (/\ ret.op = "Material.fromdict"
     /\ ret.args[1].type = "Material"
     /\ ret.args[1].pf.type \notin mcpf_classes)
       => /\ ret.exc # "" /\ ret.made = 0
          /\ ret.args[1].pf.type \notin mcpf_attributes
                => ret.exc = "TypeError"

---------------------------------------------------------------------------
(* Properties of the phase function cache (SpecCache).                     *)

\* The calls i and j went to the same cache with the same factory and
\* value-identical arguments.
SameKey(i, j) ==
    calls[i].cache = calls[j].cache /\ calls[i].key = calls[j].key

\* C20: of the get calls that Suspension.pf has made on a cache, any two
\* with the same factory and the same arguments returned the same object,
\* whatever calls came between them; the factory was invoked for exactly
\* one of the calls of a key; and two calls with different arguments
\* returned different objects.
C20_Memoized ==
    \A i \in 1 .. Len(calls) :
       /\ \A j \in 1 .. Len(calls) :
             /\ SameKey(i, j) => calls[i].obj.id = calls[j].obj.id
             /\ calls[i].key # calls[j].key
                   => calls[i].obj.id # calls[j].obj.id
       /\ Cardinality({j \in 1 .. Len(calls) :
                          SameKey(i, j) /\ calls[j].made}) = 1

C20_Witness ==
    /\ Len(calls) = 3
    /\ SameKey(1, 3) /\ ~SameKey(1, 2) /\ calls[1].cache = calls[2].cache
    /\ calls[1].made /\ calls[2].made /\ ~calls[3].made
    /\ calls[1].obj.id = calls[3].obj.id
    /\ ret.op = "Suspension.pf" /\ ret.args[1] = "T"
    /\ suspensions["S"] = suspensions["T"]

---------------------------------------------------------------------------
(* Properties of the operations of a stack (SpecStack).                    *)

\* A member of the stack bound to s is no Material, or has a phase function
\* of another type than the family the stack has recorded.
Inconsistent(s) ==
    \E i \in 1 .. Len(MaterialsOf(s)) :
       \/ ~IsMaterial(MaterialsOf(s)[i])
       \/ PfTypeOf(MaterialsOf(s)[i]) # stacks[s].pf_type

\* The operations of Materials other than the constructor, check and
\* __setitem__.
OtherOps == {"cl_pack", "Materials.todict", "material", "getitem", "tolist"}

\* C21: A[i] = m at an index of the stack raises nothing and stores m,
\* whatever m is (a Material of another family, or no Material); on a stack
\* made inconsistent that way check() raises TypeError, and cl_pack, todict,
\* material, __getitem__ and tolist do not: none of them raises the
\* TypeError of check or touches the recorded family.
C21_SetitemUnchecked ==
    [][/\ \A i \in 0 .. MaxLen - 1, v \in Elems :
             (i < Len(MaterialsOf("A")) /\ setitem("A", i, v))
                => ret'.exc = "" /\ MaterialsOf("A")'[i + 1] = v
       /\ (ret'.op = "check" /\ Inconsistent("A"))
             => ret'.exc = "TypeError"
       /\ (ret'.op \in OtherOps /\ Inconsistent("A"))
             => ret'.exc # "TypeError" /\ UNCHANGED <<lists, stacks>>]_vars

C21_Witness ==
    /\ ret.op = "cl_pack" /\ ret.exc = ""
    /\ Len(MaterialsOf("A")) = 2
    /\ \A i \in 1 .. 2 : IsMaterial(MaterialsOf("A")[i])
    /\ Inconsistent("A")

\* C22: a cl_pack that returns has filled and returned the array it was
\* given exactly when an array was given and its length is that of the
\* stack; otherwise (None, or another length) it returns a new array of the
\* length of the stack, and the array given holds what it held before.
C22_TargetReused ==
    (ret.op = "cl_pack" /\ ret.exc = "")
       => LET target == ret.args[1]
              l == MaterialsOf("A")
              same == target.given /\ Len(target.recs) = Len(l)
          IN  /\ ret.reused <=> same
              /\ Len(ret.val) = Len(l)
              /\ \A i \in 1 .. Len(l) : HoldsCoefficients(ret.val[i], mats[l[i]])
              /\ same => ret.target = ret.val
              /\ ~same => ret.target = target.recs

C22_Witness ==
    /\ ret.op = "cl_pack" /\ ret.exc = "" /\ ~ret.reused
    /\ Len(MaterialsOf("A")) = 2
    /\ ret.args[1].given /\ Len(ret.args[1].recs) = 1
    /\ ret.target = <<StaleRecord("Gk")>>
    /\ Len(ret.val) = 2

\* The other case of C22: an array of the length of the stack is filled and
\* returned.
C22_WitnessReused ==
    /\ ret.op = "cl_pack" /\ ret.exc = "" /\ ret.reused
    /\ Len(MaterialsOf("A")) = 2
    /\ ret.target = ret.val /\ ret.target # ret.args[1].recs

---------------------------------------------------------------------------
(* Properties of the constants and of the sampling routine of Gk.          *)

\* C23: whenever the stored g is a number of [-1, 1] other than 0 and the
\* stored a is 0, the stored constants are invA = 0, a1 = (1 + g^2)/(2g)
\* and a2 = (1 + 2g + g^2)/(2g).
C23_ZeroA ==
    \A o \in Varied :
       LET g == mats[o].pf.g
           twice == FAdd(g, g)
       IN  (~IsNaN(g) /\ ~FEq(g, F(0)) /\ FEq(mats[o].pf.a, F(0)))
              => /\ ~FLt(g, F(-1)) /\ ~FGt(g, F(1))
                 /\ mats[o].pf.pre =
                       <<F(0),
                         FDiv(FAdd(F(1), FMul(g, g)), twice),
                         FDiv(FAdd(F(1), FAdd(twice, FMul(g, g))), twice)>>

C23_Witness ==
    /\ ret.op = "a" /\ ret.exc = "" /\ ret.args = <<F(0)>>
    /\ \E o \in Varied :
          /\ mats[o].pf.g = Half /\ mats[o].pf.a = F(0)
          /\ mats[o].pf.pre = <<F(0), [num |-> 5, den |-> 4],
                                [num |-> 9, den |-> 4]>>

\* The last call was the sampling routine in its branch g != 0, a == 0.
SampledZeroA ==
    /\ ret.op = "sample"
    /\ ~FEq(ret.args[1].g, F(0)) /\ FEq(ret.args[1].a, F(0))

\* C24: in the branch a == 0, g != 0 the routine computes cos_theta =
\* a1 - ((1 - g)/(1 + g))^(2U) * a2 before the clip.
C24_ZeroASample ==
    SampledZeroA
       => LET pf == ret.args[1]
              u == ret.args[2].seq[2]
              base == mc_fdiv(FAdd(F(1), FMul(F(-1), pf.g)), FAdd(F(1), pf.g))
          IN  ret.cos_theta =
                 FAdd(pf.a1,
                      FMul(F(-1), FMul(mc_pow(base, FMul(F(2), u)), pf.a2)))

\* The consequence that C24 names: U = 0 gives -1 and U = 1/2 gives g,
\* for the constants of a g of (-1, 1).
C24_ZeroASampleEnds ==
    (/\ SampledZeroA
     /\ ret.args[1].g \in {MinusHalf, Half}
     /\ Gk_recalculate(ret.args[1].g, F(0)).pre
            = <<ret.args[1].inv_a, ret.args[1].a1, ret.args[1].a2>>)
       => /\ ret.args[2].seq[2] = F(0) => ret.cos_theta = F(-1)
          /\ ret.args[2].seq[2] = Half => ret.cos_theta = ret.args[1].g

\* The branch that the last sample took.
SampledBranch ==
    IF FEq(ret.args[1].g, F(0)) THEN "g == 0"
    ELSE IF FEq(ret.args[1].a, F(0)) THEN "a == 0" ELSE "general"

\* C25: the value that the sampling routine returns is a number of [-1, 1],
\* for every packed pf and every draw: it is the local cos_theta of the
\* branch taken, clipped.
C25_Clipped ==
    ret.op = "sample"
       => LET v == ret.val[1]
          IN  /\ ~IsNaN(v) /\ ~FLt(v, F(-1)) /\ ~FGt(v, F(1))
              /\ (~IsNaN(ret.cos_theta) /\ ~FLt(ret.cos_theta, F(-1))
                     /\ ~FGt(ret.cos_theta, F(1))) => v = ret.cos_theta
              /\ FGt(ret.cos_theta, F(1)) => v = F(1)
              /\ FLt(ret.cos_theta, F(-1)) => v = F(-1)

C25_Witness ==
    /\ ret.op = "sample" /\ SampledBranch = "a == 0"
    /\ FGt(ret.cos_theta, F(1)) /\ ret.val = <<F(1)>>

\* Samples of the other two branches, and a sample whose cos_theta is nan
\* (g = -1, a = 0: the power is infinite and a2 is 0).
C25_WitnessZeroG ==
    ret.op = "sample" /\ SampledBranch = "g == 0" /\ ret.val = <<F(0)>>
C25_WitnessGeneral ==
    /\ ret.op = "sample" /\ SampledBranch = "general"
    /\ ret.val = <<ret.cos_theta>> /\ FLt(ret.cos_theta, F(0))
C25_WitnessNaN ==
    ret.op = "sample" /\ IsNaN(ret.cos_theta) /\ ret.val = <<F(-1)>>

\* C26: a call of the sampling routine consumes exactly two draws of the
\* random-number source in each of its branches: the first gives the
\* azimuth 2*pi*U, which lies in [0, 2*pi), the second the polar cosine.
C26_TwoDraws ==
    ret.op = "sample"
       => LET before == ret.args[2]
          IN  /\ ret.rng.pos = before.pos + 2
              /\ ret.rng.seq = before.seq
              /\ ret.azimuth = FMul(F(2), before.seq[before.pos + 1])
              /\ ~FLt(ret.azimuth, F(0)) /\ FLt(ret.azimuth, F(2))
              /\ ret.cos_theta
                    = sample_cos_theta(ret.args[1], before.seq[before.pos + 2])

C26_Witness ==
    /\ ret.op = "sample" /\ SampledBranch = "general"
    /\ ret.args[2].seq = <<Half, F(0), Half>>
    /\ ret.rng.pos = 2 /\ ret.azimuth = F(1)
    /\ ret.cos_theta # sample_cos_theta(ret.args[1], Half)

C26_WitnessZeroG ==
    /\ ret.op = "sample" /\ SampledBranch = "g == 0"
    /\ ret.args[2].seq = <<Half, F(0), Half>>
    /\ ret.rng.pos = 2 /\ ret.cos_theta = F(1)
C26_WitnessZeroA ==
    /\ ret.op = "sample" /\ SampledBranch = "a == 0"
    /\ ret.args[2].seq = <<F(0), Half, F(0)>>
    /\ ret.rng.pos = 2 /\ ret.azimuth = F(0)

\* The Suspensions bound to s and t were made one from the other: the last
\* call made t from s.
MadeFrom(s, t) ==
    \/ ret'.op = "Suspension" /\ ret'.args[1] = t
          /\ ret'.args[2] = [type |-> "Suspension", name |-> s]
    \/ ret'.op \in {"make_mus", "make_musr"} /\ ret'.args[1] = s
          /\ ret'.val = <<t>>

\* The object that the pf call (wavelength, temperature) of the Suspension
\* bound to s would return in the state after the step.
WouldReturn(s, w, t) ==
    ObjCache_get(caches'[suspensions'[s].pf_cache], "MiePd",
                 Suspension_pf_args(suspensions'[s], w, t), 0).obj

\* C27: a Suspension made from another one, by Suspension(S1), make_mus or
\* make_musr, refers to the caches of the original, so that from then on a
\* pf call on either returns the object that the other returns for the
\* same wavelength and temperature; a Suspension made from a size
\* distribution has a new, empty cache that no other Suspension refers to.
C27_SharedCache ==
    [][/\ \A s \in SuspIds, t \in SuspIds :
             MadeFrom(s, t)
                => suspensions'[t].pf_cache = suspensions[s].pf_cache
       /\ \A s \in SuspIds :
             (ret'.op = "Suspension" /\ ret'.args[1] = s
                /\ ~IsSuspension(ret'.args[2]))
                => /\ caches'[suspensions'[s].pf_cache] = {}
                   /\ \A t \in SuspIds \ {s} :
                         suspensions'[t] # NoSuspension
                            => suspensions'[t].pf_cache
                                  # suspensions'[s].pf_cache
       /\ \A s \in SuspIds, t \in SuspIds :
             (/\ suspensions[s] # NoSuspension
              /\ suspensions[t] # NoSuspension
              /\ suspensions[s].pf_cache = suspensions[t].pf_cache)
                => /\ suspensions'[s].pf_cache = suspensions'[t].pf_cache
                   /\ \A i \in 1 .. Len(calls') :
                         calls'[i].by = s
                            => WouldReturn(t, calls'[i].args[1],
                                           calls'[i].args[2]).id
                                  = calls'[i].obj.id]_vars

C27_Witness ==
    /\ Len(calls) = 2
    /\ calls[1].by = "S" /\ calls[2].by = "T"
    /\ calls[1].args = calls[2].args
    /\ calls[1].made /\ ~calls[2].made
    /\ calls[1].obj = calls[2].obj
    /\ ret.op = "Suspension.pf" /\ ret.reused

\* The other ways of C27: a copy made by make_mus, whose set_mus found the
\* object that the original had made; and two Suspensions made from size
\* distributions, which get different objects for the same arguments.
C27_WitnessMakeMus ==
    /\ Len(calls) = 2 /\ ret.op = "make_mus"
    /\ calls[1].by = "S" /\ calls[2].by = "T"
    /\ calls[1].args = calls[2].args /\ calls[1].obj = calls[2].obj
C27_WitnessUnshared ==
    /\ Len(calls) = 2
    /\ calls[1].by = "S" /\ calls[2].by = "T"
    /\ calls[1].key = calls[2].key /\ calls[1].obj.id # calls[2].obj.id

---------------------------------------------------------------------------
(* The recorded family of a stack (Spec).                                  *)

\* C28: a stack has a recorded family from its construction on (that of the
\* first member at the check of the constructor, or at the copy), and no
\* step changes it; check() raises TypeError exactly when some member,
\* index 0 included, is no Material of the recorded family, so that a
\* stack whose members were all replaced by Materials of one other family
\* fails the check.
C28_FamilyRecordedOnce ==
    [][\A s \in StackIds :
          /\ IsBound(s)
                => /\ stacks[s].pf_type \in {"Gk", "Hg"}
                   /\ stacks'[s].pf_type = stacks[s].pf_type
          /\ (~IsBound(s) /\ IsBound(s)')
                => stacks'[s].pf_type = PfTypeOf(MaterialsOf(s)'[1])
          /\ Materials_check(s)
                => /\ Inconsistent(s) => ret'.exc = "TypeError"
                   /\ ~Inconsistent(s) => ret'.exc = ""]_vars

C28_Witness ==
    /\ ret.op = "check" /\ ret.exc = "TypeError"
    /\ Len(MaterialsOf("A")) = 2
    /\ \A i \in 1 .. 2 :
          /\ IsMaterial(MaterialsOf("A")[i])
          /\ PfTypeOf(MaterialsOf("A")[i]) = "Hg"
    /\ stacks["A"].pf_type = "Gk"

---------------------------------------------------------------------------
(* The deposit routine of LinearArrayPl (SpecDeposit).                     *)

\* The core of the fiber i of the simulator's detector holds pos: the center
\* of the fiber is first_position + i * delta_position.
CoreHolds(i, pos) ==
    LET dt == mcsim.detector
        c == VAdd(dt.first_position, Scale(dt.delta_position, F(i)))
        p == transform_point3f(dt.transformation,
                 <<FSub(pos[1], c[1]), FSub(pos[2], c[2]), F(0)>>)
    IN  FLe(FAdd(FMul(p[1], p[1]), FMul(p[2], p[2])), dt.core_r_squared)

HitFibers(pos) == {i \in 0 .. mcsim.n - 1 : CoreHolds(i, pos)}

\* C29: a deposit changes the accumulators only when a fiber of index < n
\* holds the position; the fiber is then the one of lowest index, pl_index
\* lies in [0, n_pl - 1], the accumulator index is pl_index*n + fiber_index
\* and lies in [0, n_pl*n), and the integer weight is added to that cell and
\* to no other; when no fiber holds the position the accumulators are
\* unchanged.
C29_DepositInRange ==
    [][mcsim'.packets # mcsim.packets =>
         Bind(<<ret', HitFibers(ret'.args[1]), mcsim'.buffer>>, LAMBDA v :
         /\ v[1].op = "deposit"
         /\ v[2] = {} => v[1].early /\ v[3] = mcsim.buffer
         /\ v[2] # {}
               => /\ ~v[1].early
                  /\ v[1].fiber_index < mcsim.n
                  /\ v[1].fiber_index \in v[2]
                  /\ \A i \in v[2] : v[1].fiber_index <= i
                  /\ v[1].pl_index \in 0 .. mcsim.detector.n_pl - 1
                  /\ v[1].index = v[1].pl_index * mcsim.n + v[1].fiber_index
                  /\ 0 <= v[1].index
                  /\ v[1].index < mcsim.detector.n_pl * mcsim.n
                  /\ v[3] = [mcsim.buffer EXCEPT
                                ![v[1].index] = @ + v[1].ui32w])]_vars

\* A packet with a path length beyond the axis, at a position that one
\* fiber holds, was deposited in the last accumulator of the buffer.
C29_Witness ==
    /\ ret.op = "deposit" /\ ~ret.early
    /\ ret.args[4] = F(5)
    /\ mcsim.n = 2 /\ mcsim.detector.n_pl = 2
    /\ ret.fiber_index = 1 /\ ret.pl_index = 1 /\ ret.index = 3
    /\ ret.ui32w > 0
    /\ mcsim.buffer[3] > 0

\* A position that two fibers hold went to the fiber of lowest index.
C29_WitnessLowest ==
    /\ ret.op = "deposit" /\ ~ret.early
    /\ Cardinality(HitFibers(ret.args[1])) = 2
    /\ ret.fiber_index = 0
    /\ ret.ui32w > 0

\* A position that no fiber holds: nothing was deposited.
C29_WitnessNoFiber ==
    /\ ret.op = "deposit" /\ ret.early
    /\ ret.args[3] = F(1)
    /\ mcsim.packets = 1
    /\ \A c \in DOMAIN mcsim.buffer : mcsim.buffer[c] = 0

\* A path length before the axis, and one that no integer holds, went to an
\* accumulator of the buffer.
C29_WitnessBelow ==
    /\ ret.op = "deposit" /\ ~ret.early
    /\ ret.args[4] = F(0) /\ mcsim.detector.pl_min = F(3)
    /\ ret.pl_index = 0 /\ ret.ui32w > 0

C29_WitnessOverflow ==
    /\ ret.op = "deposit" /\ ~ret.early
    /\ ret.args[4] = Inf /\ mcsim.detector.n_pl = 2
    /\ ret.pl_index = 0 /\ ret.ui32w > 0

---------------------------------------------------------------------------
(* The orientation and the direction of a LinearArrayPl (SpecProbe).       *)

IsUnit(v) == SumSq(v) = F(1)
IsZero(v) == \A i \in 1 .. Len(v) : v[i] = F(0)

\* C30: the orientation and the direction of every detector have unit
\* length in every reachable state (an assignment of a zero vector raises
\* ValueError and leaves the stored vector as it was).
C30_UnitLength ==
    \A d \in DetIds :
        IsUnit(detectors[d].orientation) /\ IsUnit(detectors[d].direction)

\* The assignment of a zero vector raises ValueError and changes no detector.
ZeroVectorKeepsStored ==
    [][\A d \in DetIds :
          /\ (\E v \in OrientationValues : IsZero(v) /\ set_orientation(d, v))
                => ret'.exc = "ValueError" /\ detectors' = detectors
          /\ (\E v \in DirectionValues : IsZero(v) /\ set_direction(d, v))
                => ret'.exc = "ValueError" /\ detectors' = detectors]_vars

\* The assignment of a vector that is not zero stores the vector divided by
\* its norm and raises nothing; that of a zero vector raises ValueError.
AssignmentNormalizes ==
    /\ ret.op = "set_orientation"
          => IF IsZero(ret.args[2]) THEN ret.exc = "ValueError"
             ELSE /\ ret.exc = ""
                  /\ detectors[ret.args[1]].orientation
                        = Scale(ret.args[2], FDiv(F(1), norm(ret.args[2])))
                  /\ IsUnit(detectors[ret.args[1]].orientation)
    /\ ret.op = "set_direction"
          => IF IsZero(ret.args[2]) THEN ret.exc = "ValueError"
             ELSE /\ ret.exc = ""
                  /\ detectors[ret.args[1]].direction
                        = Scale(ret.args[2], FDiv(F(1), norm(ret.args[2])))
                  /\ IsUnit(detectors[ret.args[1]].direction)

\* A constructor that raises binds nothing: the detectors that the
\* constructor returns have unit vectors.
ConstructedUnit ==
    [][\A d \in DetIds :
          (ret'.op = "LinearArrayPl" /\ ret'.exc = ""
             /\ ret'.args[1] = d /\ detectors'[d] # detectors[d])
            => /\ IsUnit(detectors'[d].orientation)
               /\ IsUnit(detectors'[d].direction)]_vars

\* A rejected zero orientation stays stored while the other setters go on
\* working: orientation (0, 0) with the position assigned after it.
ZeroStoredThenPosition ==
    /\ ret.op = "set_position" /\ ret.exc = ""
    /\ IsZero(detectors["D"].orientation)
    /\ detectors["D"].position = <<F(1), F(2)>>
====
